---- MODULE Spec2Model ----
(***************************************************************************)
(* Model of imnode-graph: the ImObjectPool / ImObjectList containers and   *)
(* the per-frame declaration machine of ImNodeGraph (graph, node, pin      *)
(* scopes, connections between pins).                                      *)
(*                                                                         *)
(* C++ vectors are 0-based; a slot index i of the code is kept as i in the *)
(* model and read through At(s, i) = s[i + 1].                             *)
(***************************************************************************)
EXTENDS Integers, Sequences, FiniteSets, TLC

VARIABLES
    pool,      \* a stand-alone ImObjectPool<int>
    plast,     \* the last call made on pool: its arguments and what it returned
    pexpect,   \* id -> <<payload the caller last stored for the id>>, or NoEntity
    pstale     \* ids that have not been looked up since the last Reset()

VARIABLES
    Scope,     \* ImNodeGraphContext::Scope
    Graph,     \* the ImNodeGraphData of the context's graph
    IO,        \* the input of the current frame (focus, left button, Alt, hovered pin)
    Frame,     \* the host's position in the frame: nodes and pins declared so far
    Last,      \* the last call of the host: its arguments and what it returned
    Ctx        \* the rest of the ImNodeGraphContext: the registry of graphs,
               \* CurrentGraph, and whether an IM_ASSERT has failed

VARIABLES
    GImNodeGraph,  \* the current context: the number of a context, or NoContext
    Contexts       \* the contexts of the host: which are allocated, and the
                   \* graphs each owns

VARIABLES
    imset,     \* a stand-alone ImSet<ImGuiID>
    smembers,  \* the values inserted into imset and not erased or cleared since
    slast      \* the last call made on imset

pvars == <<pool, plast, pexpect, pstale>>

svars == <<imset, smembers, slast>>

cvars == <<GImNodeGraph, Contexts>>

gvars == <<Scope, Graph, IO, Frame, Last, Ctx>>

vars == <<pool, plast, pexpect, pstale, Scope, Graph, IO, Frame, Last, Ctx, GImNodeGraph, Contexts,
          imset, smembers, slast>>

\* ---------------------------------------------------------------------------
\* Bounds of the model
\* ---------------------------------------------------------------------------

\* payload values a caller writes into a pool slot are 1..MaxVal
MaxVal == 1
\* the connection list holds at most MaxConns slots
MaxConns == 2
\* NewConnections / ErasedConnections of a pin hold at most MaxList entries
MaxList == 2
\* the host makes at most MaxCalls calls of the connection interface in a frame
MaxCalls == 2
\* the host runs at most MaxFrames frames
MaxFrames == 2
\* the host of the scope machine opens a graph at most MaxScopeFrames times
MaxScopeFrames == 3

\* frames of the host whose user selects
MaxSelectFrames == 4

\* ---------------------------------------------------------------------------
\* Program constants
\* ---------------------------------------------------------------------------

nullidx == -1

\* ---------------------------------------------------------------------------
\* ImVector helpers (0-based indexing as in the code)
\* ---------------------------------------------------------------------------

At(s, i) == s[i + 1]

SetAt(s, i, v) == [s EXCEPT ![i + 1] = v]

InRange(s, i) == i >= 0 /\ i < Len(s)

Back(s) == s[Len(s)]

PopBack(s) == SubSeq(s, 1, Len(s) - 1)

\* ImVector::find_index: position of the first v, -1 when absent
RECURSIVE FindFrom(_, _, _)
FindFrom(s, v, i) ==
    IF i >= Len(s) THEN -1
    ELSE IF At(s, i) = v THEN i
    ELSE FindFrom(s, v, i + 1)

find_index(s, v) == FindFrom(s, v, 0)

EraseAt(s, i) == SubSeq(s, 1, i) \o SubSeq(s, i + 2, Len(s))

\* ImVector::find_erase: erase the first v, keeping the order of the rest
find_erase(s, v) ==
    LET i == find_index(s, v) IN IF i = -1 THEN s ELSE EraseAt(s, i)

\* ImVector::find_erase_unsorted: the first v is overwritten by the last element
find_erase_unsorted(s, v) ==
    LET i == find_index(s, v) IN
    IF i = -1 THEN s
    ELSE IF i = Len(s) - 1 THEN PopBack(s)
    ELSE PopBack(SetAt(s, i, Back(s)))

Contains(s, v) == \E k \in 1..Len(s) : s[k] = v

Count(s, v) == Cardinality({k \in 1..Len(s) : s[k] = v})

Reverse(s) == [k \in 1..Len(s) |-> s[Len(s) + 1 - k]]

\* ---------------------------------------------------------------------------
\* ImGuiStorage (key -> int), as used for IDToIdx
\* ---------------------------------------------------------------------------

GetInt(m, k, d) == IF k \in DOMAIN m THEN m[k] ELSE d

SetInt(m, k, v) == [x \in (DOMAIN m) \cup {k} |-> IF x = k THEN v ELSE m[x]]

\* ---------------------------------------------------------------------------
\* ImObjectPool<T>
\* ---------------------------------------------------------------------------

EmptyStorage == [x \in {} |-> 0]

EmptyPool ==
    [Data |-> <<>>, Active |-> <<>>, IdxToID |-> <<>>,
     Freed |-> <<>>, Order |-> <<>>, IDToIdx |-> EmptyStorage]

\* Reset(): memset(Active, false)
PoolReset(p) == [p EXCEPT !.Active = [k \in 1..Len(p.Active) |-> FALSE]]

\* CleanupSlot without the IDToIdx.SetInt(IdxToID[i], nullidx)
CleanupSlot_KeepsMapping(p, i) ==
    IF At(p.Active, i) THEN p
    ELSE [p EXCEPT !.Freed   = Append(p.Freed, i),
                   !.Order   = find_erase(p.Order, i),
                   !.IdxToID = SetAt(p.IdxToID, i, 0)]

\* CleanupSlot without the Order.find_erase(i)
CleanupSlot_KeepsOrder(p, i) ==
    IF At(p.Active, i) THEN p
    ELSE [p EXCEPT !.Freed   = Append(p.Freed, i),
                   !.IDToIdx = SetInt(p.IDToIdx, At(p.IdxToID, i), nullidx),
                   !.IdxToID = SetAt(p.IdxToID, i, 0)]

\* one iteration of the loop of Cleanup() for slot i
CleanupSlot(p, i) ==
    IF At(p.Active, i) THEN p
    ELSE [p EXCEPT !.Freed   = Append(p.Freed, i),
                   !.Order   = find_erase(p.Order, i),
                   !.IDToIdx = SetInt(p.IDToIdx, At(p.IdxToID, i), nullidx),
                   !.IdxToID = SetAt(p.IdxToID, i, 0)]

RECURSIVE CleanupLoop(_, _)
CleanupLoop(p, i) ==
    IF i >= Len(p.Active) THEN p ELSE CleanupLoop(CleanupSlot(p, i), i + 1)

\* Cleanup(): the pool afterwards
PoolCleanup(p) == CleanupLoop([p EXCEPT !.Freed = <<>>], 0)

\* Cleanup() returning Freed.Size without subtracting the previous size
PoolCleanupCount_NoSubtract(p) == Len(PoolCleanup(p).Freed)

\* Cleanup(): the value returned
PoolCleanupCount(p) == Len(PoolCleanup(p).Freed) - Len(p.Freed)

\* _PushBack(id)
PoolPushBack(p, dflt, id) ==
    [p EXCEPT !.Data    = Append(p.Data, dflt),
              !.Active  = Append(p.Active, TRUE),
              !.IdxToID = Append(p.IdxToID, id)]

\* _GetNextIndex without the Data[idx] = T() of a reused slot
PoolGetNextIndex_KeepsData(p, dflt, id) ==
    IF p.Freed # <<>>
    THEN LET idx == Back(p.Freed) IN
         [idx  |-> idx,
          pool |-> [p EXCEPT !.Freed   = PopBack(p.Freed),
                             !.Active  = SetAt(p.Active, idx, TRUE),
                             !.IdxToID = SetAt(p.IdxToID, idx, id),
                             !.IDToIdx = SetInt(p.IDToIdx, id, idx)]]
    ELSE LET idx == Len(p.Data) IN
         [idx  |-> idx,
          pool |-> [p EXCEPT !.Data    = Append(p.Data, dflt),
                             !.Active  = Append(p.Active, TRUE),
                             !.IdxToID = Append(p.IdxToID, id),
                             !.IDToIdx = SetInt(p.IDToIdx, id, idx)]]

\* _GetNextIndex(id): [pool, idx]
PoolGetNextIndex(p, dflt, id) ==
    IF p.Freed # <<>>
    THEN LET idx == Back(p.Freed) IN
         [idx  |-> idx,
          pool |-> [p EXCEPT !.Freed   = PopBack(p.Freed),
                             !.Data    = SetAt(p.Data, idx, dflt),
                             !.Active  = SetAt(p.Active, idx, TRUE),
                             !.IdxToID = SetAt(p.IdxToID, idx, id),
                             !.IDToIdx = SetInt(p.IDToIdx, id, idx)]]
    ELSE LET idx == Len(p.Data)
             q   == PoolPushBack(p, dflt, id) IN
         [idx  |-> idx,
          pool |-> [q EXCEPT !.IDToIdx = SetInt(q.IDToIdx, id, idx)]]

\* operator[](ImGuiID) for an id without a slot, r the result of _GetNextIndex
PoolGetNew(r) ==
    [idx  |-> r.idx,
     pool |-> [r.pool EXCEPT !.Order  = Append(@, r.idx),
                             !.Active = SetAt(@, r.idx, TRUE)]]

\* operator[](ImGuiID): [pool, idx]; the reference returned is Data[idx]
PoolGetAt(p, dflt, id, idx) ==
    IF idx = nullidx
    THEN PoolGetNew(PoolGetNextIndex(p, dflt, id))
    ELSE [idx |-> idx, pool |-> [p EXCEPT !.Active = SetAt(@, idx, TRUE)]]

PoolGet(p, dflt, id) == PoolGetAt(p, dflt, id, GetInt(p.IDToIdx, id, nullidx))

\* operator()(ImGuiID) const
PoolHas(p, id) ==
    LET idx == GetInt(p.IDToIdx, id, nullidx) IN
    idx # nullidx /\ At(p.Active, idx)

\* the loop of PushToTop bounded by i < Order.size() - 2
RECURSIVE BubbleUp_StopsEarly(_, _)
BubbleUp_StopsEarly(order, i) ==
    IF i >= Len(order) - 2 THEN order
    ELSE BubbleUp_StopsEarly(
             SetAt(SetAt(order, i, At(order, i + 1)), i + 1, At(order, i)), i + 1)

\* the loop of PushToTop: swap Order[i], Order[i + 1] up to the end
RECURSIVE BubbleUp(_, _)
BubbleUp(order, i) ==
    IF i >= Len(order) - 1 THEN order
    ELSE BubbleUp(SetAt(SetAt(order, i, At(order, i + 1)), i + 1, At(order, i)), i + 1)

\* PushToTop(id) indexes Order[-1] when the mapped slot is not in Order
PushToTopFails(p, id) ==
    LET idx == GetInt(p.IDToIdx, id, nullidx) IN
    idx # nullidx /\ find_index(p.Order, idx) = -1 /\ Len(p.Order) > 0

\* PushToTop(id)
PoolPushToTop(p, id) ==
    LET idx == GetInt(p.IDToIdx, id, nullidx) IN
    IF idx = nullidx \/ find_index(p.Order, idx) = -1 THEN p
    ELSE [p EXCEPT !.Order = BubbleUp(p.Order, find_index(p.Order, idx))]

\* operator()(int): is the slot at order position k active
OrderActive(p, k) == At(p.Active, At(p.Order, k))

\* iterator: skip forward over inactive entries
RECURSIVE SkipFwd(_, _)
SkipFwd(p, k) ==
    IF k < Len(p.Order) /\ ~OrderActive(p, k) THEN SkipFwd(p, k + 1) ELSE k

\* for(it = begin(); it != end(); ++it): the slots visited, from position k on
RECURSIVE WalkFwd(_, _)
WalkFwd(p, k) ==
    IF k = Len(p.Order) THEN <<>>
    ELSE <<At(p.Order, k)>> \o WalkFwd(p, SkipFwd(p, k + 1))

PoolIterate(p) == WalkFwd(p, SkipFwd(p, 0))

\* reverse_iterator testing the entry at idx_ instead of idx_ - 1
RECURSIVE SkipBwd_OffByOne(_, _)
SkipBwd_OffByOne(p, k) ==
    IF k > 0 /\ k < Len(p.Order) /\ ~OrderActive(p, k) THEN SkipBwd_OffByOne(p, k - 1) ELSE k

\* reverse_iterator: skip backward over inactive entries
RECURSIVE SkipBwd(_, _)
SkipBwd(p, k) ==
    IF k > 0 /\ ~OrderActive(p, k - 1) THEN SkipBwd(p, k - 1) ELSE k

\* for(it = rbegin(); it != rend(); ++it): the slots visited, from position k on
RECURSIVE WalkBwd(_, _)
WalkBwd(p, k) ==
    IF k = 0 THEN <<>>
    ELSE <<At(p.Order, k - 1)>> \o WalkBwd(p, SkipBwd(p, k - 1))

PoolReverseIterate(p) == WalkBwd(p, SkipBwd(p, Len(p.Order)))

\* ---------------------------------------------------------------------------
\* The stand-alone pool: any interleaving of lookups, writes through the
\* returned reference, Reset, Cleanup, PushToTop and iteration
\* ---------------------------------------------------------------------------

\* ids handed to the stand-alone pool (0 is the pool's own "no id" value)
PoolIds == {1, 2, 3}

NoEntity == <<>>

NoCall ==
    [op |-> "none", id |-> 0, idx |-> nullidx, ret |-> <<>>,
     fail |-> FALSE, fresh |-> FALSE, reused |-> FALSE]

\* operator[](ImGuiID) indexes Data / Active out of range
PoolGetFails(p, id) ==
    LET idx == GetInt(p.IDToIdx, id, nullidx) IN
    IF idx # nullidx THEN ~InRange(p.Data, idx)
    ELSE p.Freed # <<>> /\ ~InRange(p.Data, Back(p.Freed))

InitPool ==
    /\ pool = EmptyPool
    /\ plast = NoCall
    /\ pexpect = [id \in PoolIds |-> NoEntity]
    /\ pstale = {}

\* T& x = pool[id]
P_Get(id) ==
    /\ ~PoolGetFails(pool, id)
    /\ LET r == PoolGet(pool, 0, id) IN
       /\ pool' = r.pool
       /\ plast' = [NoCall EXCEPT !.op = "get", !.id = id, !.idx = r.idx,
                                  !.fresh = (pexpect[id] = NoEntity),
                                  !.reused = (GetInt(pool.IDToIdx, id, nullidx) = nullidx
                                              /\ pool.Freed # <<>>)]
    /\ pexpect' = [pexpect EXCEPT ![id] = IF @ = NoEntity THEN <<0>> ELSE @]
    /\ pstale' = pstale \ {id}
    /\ UNCHANGED <<gvars, cvars, svars>>

\* x = v, through the reference the last lookup returned
P_Write(v) ==
    /\ plast.op \in {"get", "write"}
    /\ pool' = [pool EXCEPT !.Data = SetAt(pool.Data, plast.idx, v)]
    /\ plast' = [plast EXCEPT !.op = "write", !.fresh = FALSE, !.reused = FALSE]
    /\ pexpect' = [pexpect EXCEPT ![plast.id] = <<v>>]
    /\ UNCHANGED pstale
    /\ UNCHANGED <<gvars, cvars, svars>>

P_Reset ==
    /\ pool' = PoolReset(pool)
    /\ plast' = [NoCall EXCEPT !.op = "reset"]
    /\ pstale' = {id \in PoolIds : pexpect[id] # NoEntity}
    /\ UNCHANGED pexpect
    /\ UNCHANGED <<gvars, cvars, svars>>

P_Cleanup ==
    /\ pool' = PoolCleanup(pool)
    /\ plast' = [NoCall EXCEPT !.op = "cleanup", !.ret = <<PoolCleanupCount(pool)>>]
    /\ pexpect' = [id \in PoolIds |-> IF id \in pstale THEN NoEntity ELSE pexpect[id]]
    /\ pstale' = {}
    /\ UNCHANGED <<gvars, cvars, svars>>

P_PushToTop(id) ==
    /\ pool' = PoolPushToTop(pool, id)
    /\ plast' = [NoCall EXCEPT !.op = "top", !.id = id, !.fail = PushToTopFails(pool, id)]
    /\ UNCHANGED <<pexpect, pstale>>
    /\ UNCHANGED <<gvars, cvars, svars>>

P_Iterate ==
    /\ plast' = [NoCall EXCEPT !.op = "iterate", !.ret = PoolIterate(pool)]
    /\ UNCHANGED <<pool, pexpect, pstale>>
    /\ UNCHANGED <<gvars, cvars, svars>>

P_ReverseIterate ==
    /\ plast' = [NoCall EXCEPT !.op = "riterate", !.ret = PoolReverseIterate(pool)]
    /\ UNCHANGED <<pool, pexpect, pstale>>
    /\ UNCHANGED <<gvars, cvars, svars>>

NextPool ==
    \/ \E id \in PoolIds : P_Get(id)
    \/ \E v \in 1..MaxVal : P_Write(v)
    \/ P_Reset
    \/ P_Cleanup
    \/ \E id \in PoolIds : P_PushToTop(id)
    \/ P_Iterate
    \/ P_ReverseIterate

\* ---------------------------------------------------------------------------
\* Properties of the pool
\* ---------------------------------------------------------------------------

Slots(p) == 0..(Len(p.Active) - 1)

IdxOf(p, id) == GetInt(p.IDToIdx, id, nullidx)

ActiveOrder(p) ==
    LET IsActive(i) == At(p.Active, i) IN SelectSeq(p.Order, IsActive)

C7_GetStep ==
    /\ plast'.op = "get" =>
          LET id  == plast'.id
              old == IdxOf(pool, id)
              idx == plast'.idx IN
          /\ old # nullidx =>
                /\ idx = old
                /\ pool'.Data = pool.Data
                /\ pool'.Order = pool.Order
                /\ pool'.Freed = pool.Freed
          /\ old = nullidx =>
                /\ idx = IF pool.Freed # <<>> THEN Back(pool.Freed) ELSE Len(pool.Data)
                /\ At(pool'.Data, idx) = 0
                /\ pool'.Order = Append(pool.Order, idx)
                /\ Count(pool'.Order, idx) = 1
                /\ \A j \in Slots(pool) \ {idx} : At(pool'.Data, j) = At(pool.Data, j)
          /\ At(pool'.Active, idx)
          /\ IdxOf(pool', id) = idx
    /\ plast'.op = "reset" => \A id \in PoolIds : ~PoolHas(pool', id)
    /\ \A id \in PoolIds :
          (~PoolHas(pool, id) /\ PoolHas(pool', id)) => (plast'.op = "get" /\ plast'.id = id)

C7_GetNeverFails ==
    /\ [](\A id \in PoolIds : ~PoolGetFails(pool, id))
    /\ [][C7_GetStep]_vars

C7_Witness ==
    /\ plast.op = "get" /\ plast.reused
    /\ Len(pool.Order) >= 2
    /\ \E id \in PoolIds : IdxOf(pool, id) # nullidx /\ ~PoolHas(pool, id)

\* C8: Cleanup() leaves exactly the inactive slots on the free list, removes
\* them from Order, unmaps their ids, leaves the active slots alone and
\* returns the number of inactive slots that were not on the free list before.
C8_CleanupStep ==
    plast'.op = "cleanup" =>
        LET Inactive == {i \in Slots(pool) : ~At(pool.Active, i)} IN
        /\ {pool'.Freed[k] : k \in 1..Len(pool'.Freed)} = Inactive
        /\ Len(pool'.Freed) = Cardinality(Inactive)
        /\ pool'.Order = ActiveOrder(pool)
        /\ \A id \in PoolIds :
              IdxOf(pool', id) =
                  IF IdxOf(pool, id) # nullidx /\ ~At(pool.Active, IdxOf(pool, id))
                  THEN nullidx ELSE IdxOf(pool, id)
        /\ pool'.Data = pool.Data
        /\ pool'.Active = pool.Active
        /\ \A i \in Slots(pool) :
              At(pool.Active, i) => At(pool'.IdxToID, i) = At(pool.IdxToID, i)
        /\ plast'.ret = <<Cardinality({i \in Inactive : ~Contains(pool.Freed, i)})>>

C9_PushToTopStep ==
    plast'.op = "top" =>
        LET idx == IdxOf(pool, plast'.id) IN
        /\ ~plast'.fail
        /\ pool'.Order = IF idx = nullidx THEN pool.Order
                         ELSE Append(find_erase(pool.Order, idx), idx)
        /\ pool'.IDToIdx = pool.IDToIdx
        /\ pool'.Data = pool.Data
        /\ pool'.Active = pool.Active
        /\ pool'.IdxToID = pool.IdxToID
        /\ pool'.Freed = pool.Freed

C9_PushToTopMoves == [][C9_PushToTopStep]_vars

C9_Witness ==
    /\ plast.op = "top"
    /\ Len(pool.Order) = 3
    /\ Back(pool.Order) = IdxOf(pool, plast.id)
    /\ pool.Order = <<1, 2, 0>>

\* C10: forward iteration visits exactly the active slots of Order, in Order's
\* order and each once; reverse iteration visits them in the opposite order.
C10_IterationOrder ==
    /\ plast.op = "iterate" =>
          /\ plast.ret = ActiveOrder(pool)
          /\ \A i \in Slots(pool) : Count(plast.ret, i) = IF At(pool.Active, i) THEN 1 ELSE 0
    /\ plast.op = "riterate" =>
          /\ plast.ret = Reverse(ActiveOrder(pool))
          /\ \A i \in Slots(pool) : Count(plast.ret, i) = IF At(pool.Active, i) THEN 1 ELSE 0

C10_Witness ==
    /\ plast.op = "riterate"
    /\ Len(plast.ret) = 2
    /\ Len(pool.Order) = 3
    /\ plast.ret # <<1, 0>> /\ plast.ret # <<2, 1>> /\ plast.ret # <<2, 0>>

\* ---------------------------------------------------------------------------
\* ImSet<ImGuiID>
\* ---------------------------------------------------------------------------

\* IMSET_MIN_CAPACITY
IMSET_MIN_CAPACITY == 7

\* _NextPrime(IMSET_MIN_CAPACITY)
SecondCapacity == 11

\* ImHash(v) % m for the ids of the model and the capacities a set of them
\* gets, computed with the 64 bit mix of ImHash<uint64_t>
ImHashMod(v, m) ==
    IF m = IMSET_MIN_CAPACITY
    THEN CASE v = 0 -> 0 [] v = 1 -> 0 [] v = 2 -> 5 [] v = 3 -> 2 [] v = 8 -> 0 [] v = 20 -> 1
    ELSE CASE v = 0 -> 0 [] v = 1 -> 2 [] v = 2 -> 6 [] v = 3 -> 1 [] v = 8 -> 10 [] v = 20 -> 4

\* ImSet::Node::Node() / a Node of the zeroed table
EmptySlot == [Value |-> 0, Set |-> FALSE, PSL |-> 0]

\* ImSet::ImSet() / Clear()
EmptySet == [Size |-> 0, Capacity |-> 0, Table |-> <<>>]

\* _NextIndex(i)
NextIndex(s, i) == (i + 1) % s.Capacity

\* _CheckLoadFactor(): Size / float(Capacity) >= 0.8f
CheckLoadFactor(s) == s.Capacity = 0 \/ 5 * s.Size >= 4 * s.Capacity

\* _NextPrime(Capacity) for the capacities of the model
NextPrime(x) == IF x = 0 THEN IMSET_MIN_CAPACITY ELSE SecondCapacity

\* _Find(v): the probe loop
RECURSIVE FindLoop(_, _, _, _)
FindLoop(s, v, idx, PSL) ==
    IF ~At(s.Table, idx).Set THEN nullidx
    ELSE IF At(s.Table, idx).PSL > PSL THEN nullidx
    ELSE IF At(s.Table, idx).Value = v THEN idx
    ELSE FindLoop(s, v, NextIndex(s, idx), PSL + 1)

\* _Find(v)
SetFind(s, v) ==
    IF s.Capacity = 0 THEN nullidx ELSE FindLoop(s, v, ImHashMod(v, s.Capacity), 0)

\* Contains(v)
SetContains(s, v) == SetFind(s, v) # nullidx

\* Insert(v): the probe loop, carrying Value with its PSL
RECURSIVE InsertLoop(_, _, _, _, _)
InsertLoop(s, v, idx, PSL, Value) ==
    IF ~At(s.Table, idx).Set
    THEN [s EXCEPT !.Table = SetAt(@, idx, [Value |-> Value, Set |-> TRUE, PSL |-> PSL]),
                   !.Size = @ + 1]
    ELSE IF At(s.Table, idx).Value = v THEN s
    ELSE IF PSL > At(s.Table, idx).PSL
    THEN InsertLoop([s EXCEPT !.Table = SetAt(@, idx, [@[idx + 1] EXCEPT !.Value = Value,
                                                                         !.PSL = PSL])],
                    v, NextIndex(s, idx), At(s.Table, idx).PSL + 1, At(s.Table, idx).Value)
    ELSE InsertLoop(s, v, NextIndex(s, idx), PSL + 1, Value)

\* Insert(v) once the load factor has been checked
InsertAt(s, v) == InsertLoop(s, v, ImHashMod(v, s.Capacity), 0, v)

\* _IncreaseCapacity(): the zeroed table of the next capacity
Grown(s) ==
    [Size |-> 0, Capacity |-> NextPrime(s.Capacity),
     Table |-> [i \in 1..NextPrime(s.Capacity) |-> EmptySlot]]

\* _IncreaseCapacity(): the loop that inserts the members of the old table
RECURSIVE Reinsert(_, _, _)
Reinsert(s, old, i) ==
    IF i >= Len(old) THEN s
    ELSE Reinsert(IF At(old, i).Set THEN InsertAt(s, At(old, i).Value) ELSE s, old, i + 1)

\* _IncreaseCapacity()
IncreaseCapacity(s) == Reinsert(Grown(s), s.Table, 0)

\* Insert(v)
SetInsert(s, v) == InsertAt(IF CheckLoadFactor(s) THEN IncreaseCapacity(s) ELSE s, v)

\* Erase(v): the loop that shifts the following members back
RECURSIVE EraseShift(_, _, _)
EraseShift(s, prev, idx) ==
    IF At(s.Table, idx).Set /\ At(s.Table, idx).PSL > 0
    THEN EraseShift([s EXCEPT !.Table =
                        SetAt(SetAt(@, prev, [@[idx + 1] EXCEPT !.PSL = @ - 1]),
                              idx, At(s.Table, prev))],
                    idx, NextIndex(s, idx))
    ELSE s

\* Erase(v) of the member found at idx
EraseFoundAt(s, idx) ==
    IF idx = nullidx THEN s
    ELSE EraseShift([s EXCEPT !.Table = SetAt(@, idx, [@[idx + 1] EXCEPT !.Set = FALSE]),
                              !.Size = @ - 1],
                    idx, NextIndex(s, idx))

\* Erase(v)
SetErase(s, v) == EraseFoundAt(s, SetFind(s, v))

\* begin() .. end(): the members in the order of the table
RECURSIVE MembersFrom(_, _)
MembersFrom(table, i) ==
    IF i > Len(table) THEN <<>>
    ELSE (IF table[i].Set THEN <<table[i]>> ELSE <<>>) \o MembersFrom(table, i + 1)

SetMembers(s) == MembersFrom(s.Table, 1)

\* the values begin() .. end() yields, as a set
SetValues(s) == {s.Table[i].Value : i \in {j \in 1..Len(s.Table) : s.Table[j].Set}}

\* ---------------------------------------------------------------------------
\* The stand-alone set: Insert, Erase and Clear of values that collide in the
\* table and fill it up to the load factor
\* ---------------------------------------------------------------------------

SetIds == {0, 1, 2, 3, 8, 20}

InitSet ==
    /\ imset = EmptySet
    /\ smembers = {}
    /\ slast = ""

\* imset.Insert(v)
S_Insert(v) ==
    /\ imset' = SetInsert(imset, v)
    /\ smembers' = smembers \cup {v}
    /\ slast' = "Insert"
    /\ UNCHANGED <<gvars, cvars, pvars>>

\* imset.Erase(v)
S_Erase(v) ==
    /\ imset' = SetErase(imset, v)
    /\ smembers' = smembers \ {v}
    /\ slast' = "Erase"
    /\ UNCHANGED <<gvars, cvars, pvars>>

\* imset.Clear()
S_Clear ==
    /\ imset' = EmptySet
    /\ smembers' = {}
    /\ slast' = "Clear"
    /\ UNCHANGED <<gvars, cvars, pvars>>

NextSet ==
    \/ \E v \in SetIds : S_Insert(v)
    \/ \E v \in SetIds : S_Erase(v)
    \/ S_Clear

\* ---------------------------------------------------------------------------
\* ImObjectList<ImPinConnection>
\* ---------------------------------------------------------------------------

Input == FALSE

Output == TRUE

\* ImPinPtr{} / the ImPinPtr of a default-constructed ImPinData
NullPtr == [Node |-> 0, Pin |-> 0, Direction |-> Input]

\* ImPinConnection{}
NullConnection == [A |-> NullPtr, B |-> NullPtr]

EmptyList == [Data |-> <<>>, Active |-> <<>>, Freed |-> <<>>]

\* Insert(v): [list, id]
ListInsert(l, v) ==
    IF l.Freed = <<>>
    THEN [id   |-> Len(l.Data),
          list |-> [l EXCEPT !.Data = Append(l.Data, v), !.Active = Append(l.Active, TRUE)]]
    ELSE LET id == Back(l.Freed) IN
         [id   |-> id,
          list |-> [l EXCEPT !.Freed = PopBack(l.Freed),
                             !.Data = SetAt(l.Data, id, v),
                             !.Active = SetAt(l.Active, id, TRUE)]]

\* Erase(id)
ListErase(l, id) ==
    [l EXCEPT !.Active = SetAt(l.Active, id, FALSE),
              !.Freed  = Append(l.Freed, id),
              !.Data   = SetAt(l.Data, id, NullConnection)]

\* operator()(ImGuiID)
ListHas(l, id) == At(l.Active, id)

\* operator[](ImGuiID) asserts Active[id]
ListGetFails(l, id) == ~InRange(l.Active, id) \/ ~At(l.Active, id)

\* ---------------------------------------------------------------------------
\* ImPinData, ImNodeData, ImNodeGraphData
\* ---------------------------------------------------------------------------

\* ImVec2 with integer coordinates
Pt(x, y) == [x |-> x, y |-> y]

\* ImRect
Rect(x0, y0, x1, y1) == [Min |-> Pt(x0, y0), Max |-> Pt(x1, y1)]

\* ImRect()
NullRect == Rect(0, 0, 0, 0)

\* ImOptional<T>(): not set; the model gives the unread Value a fixed content
NoId == [Set |-> FALSE, Value |-> 0]

SomeId(id) == [Set |-> TRUE, Value |-> id]

NoPoint == [Set |-> FALSE, Value |-> Pt(0, 0)]

\* float: a binary floating-point format of Precision significant bits with
\* round to nearest, ties to even; the integer n stands for the value
\* n / FloatOne, the least positive value being 1 / FloatOne
FractionBits == 6

FloatOne == 2 ^ FractionBits

Precision == 5

\* the least power of two s for which num / (den * s) has Precision bits
RECURSIVE Ulp(_, _, _)
Ulp(num, den, s) ==
    IF num < den * s * 2^Precision THEN s ELSE Ulp(num, den, 2 * s)

\* num / den rounded to the nearest integer, ties to even
Nearest(num, den) ==
    IF 2 * (num % den) > den \/ (2 * (num % den) = den /\ (num \div den) % 2 = 1)
    THEN (num \div den) + 1
    ELSE num \div den

RoundMagnitude(num, den) == Nearest(num, den * Ulp(num, den, 1)) * Ulp(num, den, 1)

\* the float nearest to num / den, for den > 0
Round(num, den) ==
    IF num < 0 THEN 0 - RoundMagnitude(0 - num, den) ELSE RoundMagnitude(num, den)

\* float + float, float - float, float * float, float / float
FAdd(a, b) == Round(a + b, 1)

FSub(a, b) == Round(a - b, 1)

FMul(a, b) == Round(a * b, FloatOne)

FDiv(a, b) == IF b < 0 THEN Round((0 - a) * FloatOne, 0 - b) ELSE Round(a * FloatOne, b)

\* the float of the integer n
Float(n) == Round(n * FloatOne, 1)

\* an ImVec2 of two floats given as integers
Vec(x, y) == Pt(Float(x), Float(y))

\* ImVec2 + ImVec2, ImVec2 - ImVec2, ImVec2 * float, ImVec2 / float
VAdd(p, q) == Pt(FAdd(p.x, q.x), FAdd(p.y, q.y))

VSub(p, q) == Pt(FSub(p.x, q.x), FSub(p.y, q.y))

VScale(p, f) == Pt(FMul(p.x, f), FMul(p.y, f))

VDiv(p, f) == Pt(FDiv(p.x, f), FDiv(p.y, f))

\* ImGraphCamera::ImGraphCamera()
InitCamera == [Position |-> Vec(0, 0), Scale |-> Float(1)]

\* ImNodeGraphSettings::ImNodeGraphSettings(): ZoomRate(0.1f), ZoomSmoothing(8.0f),
\* ZoomBounds(0.6f, 2.5f)
ZoomRate == Round(FloatOne, 10)

ZoomSmoothing == Float(8)

ZoomBounds == Pt(Round(6 * FloatOne, 10), Round(25 * FloatOne, 10))

\* ImNodeGraphData::GetCenter(): Pos + Size * 0.5
GetCenter(g) == VAdd(g.Pos, VScale(g.Size, FloatOne \div 2))

GridToScreen(g, pos) == VAdd(VScale(VSub(pos, g.Camera.Position), g.Camera.Scale), GetCenter(g))

ScreenToGrid(g, pos) == VAdd(g.Camera.Position, VDiv(VSub(pos, GetCenter(g)), g.Camera.Scale))

GridToWindow(g, pos) == VSub(GridToScreen(g, pos), g.Pos)

WindowToScreen(g, pos) == VAdd(g.Pos, pos)

ScreenToWindow(g, pos) == VSub(pos, g.Pos)

\* WindowToGrid without the position of the window
WindowToGrid_NoPos(g, pos) == ScreenToGrid(g, pos)

WindowToGrid(g, pos) == ScreenToGrid(g, VAdd(g.Pos, pos))

\* ImClamp(v, mn, mx)
ImClamp(v, mn, mx) == IF v < mn THEN mn ELSE IF v > mx THEN mx ELSE v

\* ImLerp(a, b, t): a + (b - a) * t
ImLerp(a, b, t) == FAdd(a, FMul(FSub(b, a), t))

\* GraphBehaviour: TargetZoom += MouseWheel * ZoomRate * Scale while hovered
ZoomWheel(g, io, Hovered) ==
    IF Hovered THEN FAdd(g.TargetZoom, FMul(FMul(io.wheel, ZoomRate), g.Camera.Scale))
    ELSE g.TargetZoom

ZoomSet(g, io, target) ==
    [g EXCEPT !.TargetZoom = target,
              !.Camera.Scale = ImLerp(@, target, FMul(io.dt, ZoomSmoothing))]

\* GraphBehaviour: the zoom, TargetZoom clamped into ZoomBounds and Scale
\* moved towards it
GraphZoomed(g, io, Hovered) ==
    ZoomSet(g, io, ImClamp(ZoomWheel(g, io, Hovered), ZoomBounds.x, ZoomBounds.y))

SomePoint(pt) == [Set |-> TRUE, Value |-> pt]

\* ImOptional::Reset(): Value is left as it is
OptReset(o) == [o EXCEPT !.Set = FALSE]

\* ImOptional::operator==(const T&)
OptIs(o, v) == o.Set /\ o.Value = v

\* the content of a bool member that no constructor initialises
Indeterminate == BOOLEAN

\* ImPinData::ImPinData()
DefaultPin ==
    [Node |-> 0, ID |-> 0, Direction |-> Input,
     Connections |-> <<>>, NewConnections |-> <<>>, ErasedConnections |-> <<>>,
     BNewConnections |-> FALSE, BErasedConnections |-> FALSE, Hovered |-> FALSE]

\* ImNodeData::ImNodeData(); Graph is "the Graph pointer is not null", Header
\* is the Set flag of the ImOptional<ImNodeHeaderData>
DefaultNode ==
    [Graph |-> FALSE, ID |-> 0, InputPins |-> EmptyPool, OutputPins |-> EmptyPool,
     Header |-> FALSE, Hovered |-> FALSE, Active |-> FALSE, ScreenBounds |-> NullRect,
     BgChannelIndex |-> 0, FgChannelIndex |-> 0, Root |-> Pt(0, 0), DragOffset |-> Pt(0, 0)]

NoPin == [Set |-> FALSE, Value |-> NullPtr]

SomePin(ptr) == [Set |-> TRUE, Value |-> ptr]

NoRef == [n |-> nullidx, d |-> Input, p |-> nullidx]

\* an ImDrawChannel, by what was drawn into it: the node and the layer; a
\* channel nothing was drawn into holds node 0
Blank == [Node |-> 0, Fg |-> FALSE]

Drawn(id, fg) == [Node |-> id, Fg |-> fg]

\* the ImDrawListSplitter of the window's draw list before the first frame:
\* _Count is 1 and _Channels is empty
InitSplitter == [Count |-> 1, Channels |-> <<>>]

\* ImNodeGraphData::ImNodeGraphData; Dragging has no initialiser (and
\* LockSelectRegion none either, but BeginGraph writes it before it is read)
InitGraph ==
    [Nodes |-> EmptyPool, Connections |-> EmptyList, Validation |-> "null",
     CurrentNode |-> nullidx, CurrentPin |-> NoRef, NewConnection |-> NoPin,
     Failed |-> FALSE, SubmitCount |-> 0, Splitter |-> InitSplitter,
     Camera |-> InitCamera, TargetZoom |-> Float(1), Pos |-> Vec(0, 0), Size |-> Vec(0, 0),
     IsPanning |-> FALSE, SelectRegionStart |-> NoPoint, SelectRegion |-> EmptySet,
     Dragging |-> Indeterminate, LockSelectRegion |-> FALSE,
     HoveredNode |-> NoId, FocusedNode |-> NoId, Selected |-> EmptySet]

\* ImPinData::operator ImPinPtr()
PtrOf(pin) == [Node |-> pin.Node, Pin |-> pin.ID, Direction |-> pin.Direction]

PinsOf(node, dir) == IF dir THEN node.OutputPins ELSE node.InputPins

WithPins(node, dir, pins) ==
    IF dir THEN [node EXCEPT !.OutputPins = pins] ELSE [node EXCEPT !.InputPins = pins]

\* the ImPinData a reference obtained from FindPin designates
PinAt(nodes, ref) == At(PinsOf(At(nodes.Data, ref.n), ref.d).Data, ref.p)

\* assignment through such a reference
SetPinIn(node, ref, pin) ==
    WithPins(node, ref.d, [PinsOf(node, ref.d) EXCEPT !.Data = SetAt(@, ref.p, pin)])

SetPin(nodes, ref, pin) ==
    [nodes EXCEPT !.Data = SetAt(@, ref.n, SetPinIn(At(nodes.Data, ref.n), ref, pin))]

\* ImNodeGraphData::FindPin: Nodes[pin.Node], then Pins[pin.Pin]; both
\* lookups create a missing slot and activate the slot they return
FindPinFound(ptr, rn, node, rp) ==
    [nodes |-> [rn.pool EXCEPT !.Data =
                   SetAt(@, rn.idx, WithPins(node, ptr.Direction, rp.pool))],
     ref   |-> [n |-> rn.idx, d |-> ptr.Direction, p |-> rp.idx]]

FindPinIn(ptr, rn, node) ==
    FindPinFound(ptr, rn, node, PoolGet(PinsOf(node, ptr.Direction), DefaultPin, ptr.Pin))

FindPinNode(ptr, rn) == FindPinIn(ptr, rn, At(rn.pool.Data, rn.idx))

FindPin(nodes, ptr) == FindPinNode(ptr, PoolGet(nodes, DefaultNode, ptr.Node))

\* the pin a pointer designates, without creating it (DefaultPin when absent)
PeekPin(nodes, ptr) ==
    LET n == GetInt(nodes.IDToIdx, ptr.Node, nullidx) IN
    IF n = nullidx THEN DefaultPin
    ELSE LET pins == PinsOf(At(nodes.Data, n), ptr.Direction)
             p == GetInt(pins.IDToIdx, ptr.Pin, nullidx) IN
         IF p = nullidx THEN DefaultPin ELSE At(pins.Data, p)

\* the installed ImConnectionValidation applied to (a, b)
Validate(v, a, b) ==
    CASE v = "samePinId" -> a.Pin = b.Pin
      [] OTHER -> TRUE

\* ---------------------------------------------------------------------------
\* Connections
\* ---------------------------------------------------------------------------

\* v.erase(v.find(x)) when x is found: the first x is removed, order kept
EraseFound(s, x) == find_erase(s, x)

\* Pin.Connections.push_back(id), through the reference ref
PushConnection(nodes, ref, id) ==
    SetPin(nodes, ref, [PinAt(nodes, ref) EXCEPT !.Connections = Append(@, id)])

\* Pin.Connections.find_erase_unsorted(id)
EraseConnection(nodes, ref, id) ==
    SetPin(nodes, ref, [PinAt(nodes, ref) EXCEPT !.Connections = find_erase_unsorted(@, id)])

\* Pin.Connections.clear()
ClearConnections(nodes, ref) ==
    SetPin(nodes, ref, [PinAt(nodes, ref) EXCEPT !.Connections = <<>>])

\* Pin.NewConnections.push_back(ptr); Pin.BNewConnections = true
PushNew(nodes, ref, ptr) ==
    SetPin(nodes, ref, [PinAt(nodes, ref) EXCEPT !.NewConnections = Append(@, ptr),
                                                 !.BNewConnections = TRUE])

\* Pin.ErasedConnections.push_back(ptr); Pin.BErasedConnections = true
PushErased(nodes, ref, ptr) ==
    SetPin(nodes, ref, [PinAt(nodes, ref) EXCEPT !.ErasedConnections = Append(@, ptr),
                                                 !.BErasedConnections = TRUE])

\* if((it = Pin.NewConnections.find(ptr)) != end) Pin.NewConnections.erase(it)
EraseNew(nodes, ref, ptr) ==
    SetPin(nodes, ref, [PinAt(nodes, ref) EXCEPT !.NewConnections = EraseFound(@, ptr)])

\* the loop body of BreakConnections once `other` has been found (fo)
BreakOnePins(g, ptr, pr, id, fo) ==
    [g EXCEPT !.Nodes =
        EraseConnection(
            EraseNew(
                EraseNew(
                    PushErased(
                        PushErased(fo.nodes, pr, PtrOf(PinAt(fo.nodes, fo.ref))),
                        fo.ref, ptr),
                    pr, PtrOf(PinAt(fo.nodes, fo.ref))),
                fo.ref, PtrOf(PinAt(fo.nodes, pr))),
            fo.ref, id)]

\* the loop body of BreakConnections once the connection has been copied
BreakOneOther(g, ptr, pr, id, connection) ==
    BreakOnePins([g EXCEPT !.Connections = ListErase(@, id)], ptr, pr, id,
                 FindPin(g.Nodes, IF connection.A = ptr THEN connection.B ELSE connection.A))

\* one iteration of the loop of BreakConnections(ptr) for connection id;
\* pr is the reference Pin obtained from FindPin(ptr) before the loop
BreakOne(g, ptr, pr, id) ==
    IF ListGetFails(g.Connections, id) THEN [g EXCEPT !.Failed = TRUE]
    ELSE BreakOneOther(g, ptr, pr, id, At(g.Connections.Data, id))

RECURSIVE BreakLoop(_, _, _, _)
BreakLoop(g, ptr, pr, ids) ==
    IF ids = <<>> \/ g.Failed THEN g
    ELSE BreakLoop(BreakOne(g, ptr, pr, Head(ids)), ptr, pr, Tail(ids))

\* Pin.Connections.clear() after the loop
BreakClear(g, pr) ==
    IF g.Failed THEN g ELSE [g EXCEPT !.Nodes = ClearConnections(@, pr)]

\* BreakConnections(ptr) once Pin has been found (f)
BreakFound(g, ptr, f) ==
    BreakClear(BreakLoop([g EXCEPT !.Nodes = f.nodes], ptr, f.ref,
                         PinAt(f.nodes, f.ref).Connections),
               f.ref)

\* BreakConnections(ptr): the graph afterwards
BreakConnections(g, ptr) == BreakFound(g, ptr, FindPin(g.Nodes, ptr))

\* if(Graph.Validation && Graph.Validation(A, B)) return false;
ValidationRejects(g, A, B) ==
    g.Validation # "null" /\ Validate(g.Validation, PtrOf(A), PtrOf(B))

\* if(A.Direction == ImPinDirection_Input && !A.Connections.empty())
BreaksPrior(pin) == pin.Direction = Input /\ pin.Connections # <<>>

\* if(...) BreakConnections(A), for the pin at reference pr
BreakPrior(g, pr) ==
    IF ~g.Failed /\ BreaksPrior(PinAt(g.Nodes, pr))
    THEN BreakConnections(g, PtrOf(PinAt(g.Nodes, pr)))
    ELSE g

\* MakeConnection from Connections.Insert({a, b}) on; ins is its result
MakeLink(g, a, b, ar, br, ins) ==
    [g   |-> [g EXCEPT !.Connections = ins.list,
                       !.Nodes = PushNew(PushNew(PushConnection(PushConnection(@, ar, ins.id),
                                                                br, ins.id),
                                                 ar, b),
                                         br, a)],
     ret |-> TRUE]

\* MakeConnection after the prior connections of both pins have been broken
MakeInsert(g, a, b, ar, br) ==
    IF g.Failed THEN [g |-> g, ret |-> FALSE]
    ELSE MakeLink(g, a, b, ar, br, ListInsert(g.Connections, [A |-> a, B |-> b]))

\* MakeConnection from the validation test on; ar, br are the references A, B
MakeValidated(g, a, b, ar, br) ==
    IF ValidationRejects(g, PinAt(g.Nodes, ar), PinAt(g.Nodes, br))
    THEN [g |-> g, ret |-> FALSE]
    ELSE MakeInsert(BreakPrior(BreakPrior(g, ar), br), a, b, ar, br)

\* MakeConnection once B has been found (fb)
MakeFoundB(g, a, b, ar, fb) == MakeValidated([g EXCEPT !.Nodes = fb.nodes], a, b, ar, fb.ref)

\* MakeConnection once A has been found (fa)
MakeFoundA(g, a, b, fa) == MakeFoundB(g, a, b, fa.ref, FindPin(fa.nodes, b))

\* MakeConnection(a, b): [g, ret]
MakeConnection(g, a, b) ==
    IF a.Direction = b.Direction THEN [g |-> g, ret |-> FALSE]
    ELSE IF a.Node = b.Node THEN [g |-> g, ret |-> FALSE]
    ELSE MakeFoundA(g, a, b, FindPin(g.Nodes, a))

\* BreakConnection without the find_erase_unsorted on the second pin
BreakPins_OneSided(g, id, connection, ar, fb) ==
    [g EXCEPT !.Nodes = EraseConnection(fb.nodes, ar, id)]

\* BreakConnection once A (reference ar) and B (fb) have been found
BreakPins(g, id, connection, ar, fb) ==
    [g EXCEPT !.Nodes =
        EraseNew(
            EraseNew(
                PushErased(
                    PushErased(
                        EraseConnection(EraseConnection(fb.nodes, ar, id), fb.ref, id),
                        ar, connection.B),
                    fb.ref, connection.A),
                ar, PtrOf(PinAt(fb.nodes, fb.ref))),
            fb.ref, PtrOf(PinAt(fb.nodes, ar)))]

\* BreakConnection once A has been found (fa)
BreakFoundA(g, id, connection, fa) ==
    BreakPins(g, id, connection, fa.ref, FindPin(fa.nodes, connection.B))

\* BreakConnection once the connection has been copied
BreakCopied(g, id, connection) ==
    BreakFoundA([g EXCEPT !.Connections = ListErase(@, id)], id, connection,
                FindPin(g.Nodes, connection.A))

\* BreakConnection(id), for an id that passes the assertion of Connections[id]
BreakConnection(g, id) == BreakCopied(g, id, At(g.Connections.Data, id))

\* the endpoint test of CheckConnectionValidity: node present, pin present
EndpointValid(nodes, e) ==
    /\ PoolHas(nodes, e.Node)
    /\ PoolHas(PinsOf(At(nodes.Data, GetInt(nodes.IDToIdx, e.Node, nullidx)), e.Direction),
               e.Pin)

\* CheckConnectionValidity returns false (the connection is kept)
ConnectionValid(g, connection) ==
    /\ PoolHas(g.Nodes, connection.A.Node)
    /\ PoolHas(g.Nodes, connection.B.Node)
    /\ EndpointValid(g.Nodes, connection.A)
    /\ EndpointValid(g.Nodes, connection.B)

\* pins[e.Pin].Connections.find_erase(id) on the pin found (f)
CleanupFound(f, id) ==
    SetPin(f.nodes, f.ref, [PinAt(f.nodes, f.ref) EXCEPT !.Connections = find_erase(@, id)])

\* the if(node_a) / if(node_b) block of CleanupConnection for endpoint e:
\* the node is looked up only when it is present, the pin with pins[e.Pin]
CleanupEndpoint(nodes, e, id) ==
    IF ~PoolHas(nodes, e.Node) THEN nodes ELSE CleanupFound(FindPin(nodes, e), id)

\* CleanupConnection(id, connection)
CleanupConnection(g, id, connection) ==
    [g EXCEPT !.Nodes = CleanupEndpoint(CleanupEndpoint(@, connection.A, id),
                                        connection.B, id),
              !.Connections = ListErase(@, id)]

\* DrawConnection(FindPin(A), FindPin(B)) for a connection that is kept
DrawKept(g, connection) ==
    [g EXCEPT !.Nodes = FindPin(FindPin(@, connection.A).nodes, connection.B).nodes]

\* one connection of the loop of DrawGraph
DrawOne(g, i, connection) ==
    IF ConnectionValid(g, connection) THEN DrawKept(g, connection)
    ELSE CleanupConnection(g, i, connection)

\* the loop over Graph->Connections in DrawGraph, from index i on
RECURSIVE DrawConnections(_, _)
DrawConnections(g, i) ==
    IF i >= Len(g.Connections.Active) THEN g
    ELSE IF ~ListHas(g.Connections, i) THEN DrawConnections(g, i + 1)
    ELSE DrawConnections(DrawOne(g, i, At(g.Connections.Data, i)), i + 1)

\* DrawGraph: DrawConnection of the connection being dragged, then the loop
\* over the connections
DrawPins(g) ==
    DrawConnections(IF g.NewConnection.Set
                    THEN [g EXCEPT !.Nodes = FindPin(@, g.NewConnection.Value).nodes]
                    ELSE g,
                    0)

\* GraphBehaviour: the early return that ends a connection gesture
GraphUnfocused(g, io) ==
    IF g.NewConnection.Set /\ io.ev = "release"
    THEN [g EXCEPT !.NewConnection = NoPin]
    ELSE g

\* PinHead: BeginConnection(Pin) when the pin is clicked without a modifier
PinClick(g, pr, io) ==
    IF io.ev = "click" /\ io.mods = "none"
    THEN [g EXCEPT !.NewConnection = SomePin(PtrOf(PinAt(g.Nodes, pr)))]
    ELSE g

\* PinHead: MakeConnection(Pin, other) once other has been found (f)
PinDrop(g, pr, f) ==
    MakeConnection([g EXCEPT !.Nodes = f.nodes],
                   PtrOf(PinAt(f.nodes, pr)), PtrOf(PinAt(f.nodes, f.ref))).g

\* PinHead: the two tests on the release of the button
PinRelease(g, pr, io) ==
    IF io.ev # "release" THEN g
    ELSE IF g.NewConnection.Set THEN PinDrop(g, pr, FindPin(g.Nodes, g.NewConnection.Value))
    ELSE IF io.mods = "alt" THEN BreakConnections(g, PtrOf(PinAt(g.Nodes, pr)))
    ELSE g

\* PinHead: Pin.Hovered = IsMouseHoveringRect(check_bb)
PinHovered(g, pr, io) ==
    [g EXCEPT !.Nodes = SetPin(@, pr, [PinAt(@, pr) EXCEPT
                                          !.Hovered = io.hover = SomePin(PtrOf(PinAt(g.Nodes, pr)))])]

\* PinHead(id, Pin) for the pin at reference pr
PinHead(g, pr, io) ==
    IF ~io.focused THEN g
    ELSE IF io.hover # SomePin(PtrOf(PinAt(g.Nodes, pr))) THEN PinHovered(g, pr, io)
    ELSE PinRelease(PinClick(PinHovered(g, pr, io), pr, io), pr, io)

\* ---------------------------------------------------------------------------
\* Hovered and focused nodes, the selection and the select region
\* ---------------------------------------------------------------------------

\* ImAABB(a, b)
ImAABB(a, b) ==
    /\ a.Max.x > b.Min.x
    /\ a.Min.x < b.Max.x
    /\ a.Max.y > b.Min.y
    /\ a.Min.y < b.Max.y

\* ImGui::IsMouseHoveringRect(r.Min, r.Max) with the pointer at pt
MouseIn(r, pt) == r.Min.x <= pt.x /\ pt.x < r.Max.x /\ r.Min.y <= pt.y /\ pt.y < r.Max.y

Min2(a, b) == IF a < b THEN a ELSE b

Max2(a, b) == IF a > b THEN a ELSE b

\* ImNodeGraphData::GetSelection() while SelectRegionStart is set
GetSelection(g, io) ==
    [Min |-> Pt(Min2(io.mouse.x, g.SelectRegionStart.Value.x),
                Min2(io.mouse.y, g.SelectRegionStart.Value.y)),
     Max |-> Pt(Max2(io.mouse.x, g.SelectRegionStart.Value.x),
                Max2(io.mouse.y, g.SelectRegionStart.Value.y))]

\* UpdateSelection: the cases default and ImGuiMod_Shift
UpdateInsert(sel, node, removal) ==
    IF removal THEN SetErase(sel, node) ELSE SetInsert(sel, node)

UpdateSelection_NeverClears(sel, mods, node, allow_clear, removal) ==
    IF mods = "ctrl"
    THEN IF SetContains(sel, node) THEN SetErase(sel, node) ELSE SetInsert(sel, node)
    ELSE UpdateInsert(sel, node, removal)

\* ImNodeGraphData::UpdateSelection(Node, allow_clear, removal) on Selected
UpdateSelection(sel, mods, node, allow_clear, removal) ==
    IF mods = "ctrl"
    THEN IF SetContains(sel, node) THEN SetErase(sel, node) ELSE SetInsert(sel, node)
    ELSE UpdateInsert(IF mods # "shift" /\ allow_clear THEN EmptySet ELSE sel, node, removal)

\* the pins of a pool that its iterator visits
IteratedPins(pins) == {At(pins.Data, At(PoolIterate(pins), k)) : k \in 0..(Len(PoolIterate(pins)) - 1)}

\* EndNode: one of the pins of the node is hovered
AnyPinHovered(Node) ==
    \E pin \in IteratedPins(Node.InputPins) \cup IteratedPins(Node.OutputPins) : pin.Hovered

\* EndNode: Node.Hovered
NodeHovered(g, io, Node, bounds) ==
    /\ MouseIn(bounds, io.mouse) /\ ~io.item
    /\ ~AnyPinHovered(Node)
    /\ (~g.HoveredNode.Set \/ OptIs(g.HoveredNode, Node.ID))
    /\ (~g.FocusedNode.Set \/ OptIs(g.FocusedNode, Node.ID))
    /\ ~g.SelectRegionStart.Set

\* EndNode: LockSelectRegion, ScreenBounds and Hovered of the node, scope popped
NodeEnded(g, io, bounds) ==
    [g EXCEPT !.LockSelectRegion = @ \/ io.item,
              !.Nodes = [@ EXCEPT !.Data =
                  SetAt(@, g.CurrentNode,
                        [At(@, g.CurrentNode) EXCEPT
                            !.ScreenBounds = bounds,
                            !.Hovered = NodeHovered(g, io, At(g.Nodes.Data, g.CurrentNode), bounds)])],
              !.CurrentNode = nullidx]

\* NodeBehaviour: the select region gains or loses the node
NodeRegion(g, io, id, intersect, checked) ==
    IF intersect /\ ~checked
    THEN [g EXCEPT !.SelectRegion = SetInsert(@, id),
                   !.Selected = UpdateSelection(@, io.mods, id, FALSE, FALSE)]
    ELSE IF ~intersect /\ checked
    THEN [g EXCEPT !.SelectRegion = SetErase(@, id),
                   !.Selected = UpdateSelection(@, io.mods, id, FALSE, TRUE)]
    ELSE g

\* NodeBehaviour: HoveredNode and FocusedNode
NodeFocus(g, io, Node) ==
    IF ~Node.Hovered THEN g
    ELSE [g EXCEPT !.HoveredNode = SomeId(Node.ID),
                   !.FocusedNode = IF io.ev = "click" THEN SomeId(Node.ID) ELSE @]

\* NodeBehaviour: Node.Active = is_focus
NodeActive(g, i, is_focus) ==
    [g EXCEPT !.Nodes = [@ EXCEPT !.Data = SetAt(@, i, [At(@, i) EXCEPT !.Active = is_focus])]]

\* NodeBehaviour after the focus test, for the node Node in slot i
NodeSelect(g, io, i, Node, is_focus) ==
    NodeActive(IF g.SelectRegionStart.Set
               THEN NodeRegion(g, io, Node.ID,
                               ImAABB(GetSelection(g, io), Node.ScreenBounds),
                               SetContains(g.SelectRegion, Node.ID))
               ELSE g,
               i, is_focus)

\* NodeBehaviour(Node) for the node in slot i; it returns false
NodeBehaviour(g, io, i) ==
    NodeSelect(NodeFocus(g, io, At(g.Nodes.Data, i)), io, i, At(g.Nodes.Data, i),
               OptIs(g.FocusedNode, At(g.Nodes.Data, i).ID))

\* DrawGraph: for(it = Nodes.rbegin(); it != Nodes.rend(); ++it) NodeBehaviour(*it),
\* over the slots the reverse iterator visits
RECURSIVE ScanNodes(_, _, _)
ScanNodes(g, io, slots) ==
    IF slots = <<>> THEN g
    ELSE ScanNodes(NodeBehaviour(g, io, Head(slots)), io, Tail(slots))

\* the splitter at the start of a frame: _Count is 1 again, _Channels is not
\* resized down and keeps what it held
SplitterNewFrame(sp) == [sp EXCEPT !.Count = 1]

\* PushChannels: _Channels.resize(requested_channel_count) when the capacity is short
ChannelsResize(ch, n) ==
    IF Len(ch) >= n THEN ch ELSE ch \o [k \in 1..(n - Len(ch)) |-> Blank]

\* PushChannels: the channels old_channel_count .. requested_channel_count - 1
\* are emptied or constructed
ChannelsClear(ch, from, to) ==
    [k \in 1..Len(ch) |-> IF k - 1 >= from /\ k - 1 < to THEN Blank ELSE ch[k]]

PushChannels_KeepsCount(sp, count) ==
    [sp EXCEPT !.Channels = ChannelsClear(ChannelsResize(@, sp.Count + count),
                                          sp.Count, sp.Count + count)]

\* PushChannels(count); it returns the former _Count
PushChannels(sp, count) ==
    [Count |-> sp.Count + count,
     Channels |-> ChannelsClear(ChannelsResize(sp.Channels, sp.Count + count),
                                sp.Count, sp.Count + count)]

\* what is drawn after SetChannel(idx); channel 0 is the draw list's own buffer
DrawInto(sp, idx, content) ==
    IF idx >= 1 /\ InRange(sp.Channels, idx)
    THEN [sp EXCEPT !.Channels = SetAt(@, idx, content)]
    ELSE sp

\* DrawGraph: SetChannel(Node.BgChannelIndex) and DrawNode(Node) for the
\* nodes the pool iterates over
RECURSIVE DrawNodes(_, _)
DrawNodes(g, slots) ==
    IF slots = <<>> THEN g
    ELSE DrawNodes([g EXCEPT !.Splitter =
                        DrawInto(@, At(g.Nodes.Data, Head(slots)).BgChannelIndex,
                                 Drawn(At(g.Nodes.Data, Head(slots)).ID, FALSE))],
                   Tail(slots))

\* SortChannels: the two SwapChannel calls for one node; an index out of the
\* range of temp or of _Channels fails the assertion of ImVector::operator[]
SortSwap(st, bg, fg, swap_idx) ==
    IF ~(/\ InRange(st.temp, bg) /\ InRange(st.temp, fg)
         /\ InRange(st.arr, swap_idx) /\ InRange(st.arr, swap_idx + 1))
    THEN [st EXCEPT !.failed = TRUE]
    ELSE [st EXCEPT !.temp = SetAt(SetAt(@, bg, At(st.arr, swap_idx)),
                                   fg, At(st.arr, swap_idx + 1)),
                    !.arr = SetAt(SetAt(@, swap_idx, At(st.temp, bg)),
                                  swap_idx + 1, At(st.temp, fg))]

\* SortChannels: the body of the loop over indices for the entry i of Order
SortEntry(st, nodes, strt, i) ==
    IF ~At(nodes.Active, At(nodes.Order, i)) THEN st
    ELSE IF ~At(nodes.Data, At(nodes.Order, i)).Graph THEN st
    ELSE SortSwap(st, At(nodes.Data, At(nodes.Order, i)).BgChannelIndex - strt,
                  At(nodes.Data, At(nodes.Order, i)).FgChannelIndex - strt,
                  strt + i * 2)

\* SortChannels: for(int i = 0; i < indices.Size(); ++i)
RECURSIVE SortLoop(_, _, _, _)
SortLoop(st, nodes, strt, i) ==
    IF i >= Len(nodes.Order) \/ st.failed THEN st
    ELSE SortLoop(SortEntry(st, nodes, strt, i), nodes, strt, i + 1)

\* SortChannels: the loop that swaps temp back into _Channels
RECURSIVE SortBack(_, _, _)
SortBack(st, strt, i) ==
    IF i >= Len(st.temp) \/ st.failed THEN st
    ELSE IF ~InRange(st.arr, strt + i) THEN [st EXCEPT !.failed = TRUE]
    ELSE SortBack([st EXCEPT !.arr = SetAt(@, strt + i, At(st.temp, i)),
                             !.temp = SetAt(@, i, At(st.arr, strt + i))],
                  strt, i + 1)

\* SortChannels: nump, strt, cnt and temp
SortStart(g) ==
    [temp |-> [k \in 1..(g.SubmitCount * 2) |-> Blank],
     arr |-> g.Splitter.Channels, failed |-> FALSE]

SortStrt(g) == Len(g.Splitter.Channels) - Len(g.Nodes.Active) * 2

SortResult(g, st) ==
    IF st.failed THEN [g EXCEPT !.Failed = TRUE]
    ELSE [g EXCEPT !.Splitter.Channels = st.arr]

\* SortChannels()
SortChannels(g) ==
    SortResult(g, SortBack(SortLoop(SortStart(g), g.Nodes, SortStrt(g), 0), SortStrt(g), 0))

\* DrawGraph: Splitter.Merge(&DrawList) leaves one channel in use
Merged(g) == IF g.Failed THEN g ELSE [g EXCEPT !.Splitter.Count = 1]

\* DrawGraph: the nodes are drawn, the channels are sorted and merged
DrawSorted(g) ==
    IF g.Failed THEN g ELSE Merged(SortChannels(DrawNodes(g, PoolIterate(g.Nodes))))

\* DrawGraph without the PushToTop of the node that took the focus
FocusToTop_KeepsOrder(g, prevFocus) ==
    IF g.FocusedNode = prevFocus \/ g.FocusedNode.Set THEN g ELSE [g EXCEPT !.Failed = TRUE]

\* DrawGraph: Nodes.PushToTop(FocusedNode) when the scan changed FocusedNode
FocusToTop(g, prevFocus) ==
    IF g.FocusedNode = prevFocus THEN g
    ELSE IF ~g.FocusedNode.Set THEN [g EXCEPT !.Failed = TRUE]
    ELSE [g EXCEPT !.Nodes = PoolPushToTop(@, g.FocusedNode.Value)]

\* DrawGraph: HoveredNode.Reset() and the scan of the nodes
DrawScan(g, io) ==
    IF io.focused /\ ~g.NewConnection.Set
    THEN ScanNodes([g EXCEPT !.HoveredNode = OptReset(@)], io, PoolReverseIterate(g.Nodes))
    ELSE [g EXCEPT !.HoveredNode = OptReset(@)]

\* ImGui::GetMousePos()
GetMousePos(io) == Vec(io.mouse.x, io.mouse.y)

\* ImGui::GetFontSize()
FontSize == Float(13)

\* ImFloor(f)
ImFloor(f) == (f \div FloatOne) * FloatOne

\* SnapToGrid(pos): ImFloor(pos / GridSecondarySize) * GridSecondarySize
SnapTo(pos, GridSecondarySize) ==
    Pt(FMul(ImFloor(FDiv(pos.x, GridSecondarySize)), GridSecondarySize),
       FMul(ImFloor(FDiv(pos.y, GridSecondarySize)), GridSecondarySize))

SnapToGrid(g, pos) == SnapTo(pos, FDiv(FontSize, g.Camera.Scale))

\* GraphBehaviour: Nodes[node].DragOffset = mouse - Nodes[node].Root
NodeOffset(Node, mouse) == [Node EXCEPT !.DragOffset = VSub(mouse, Node.Root)]

OffsetSet(r, mouse) ==
    [r.pool EXCEPT !.Data = SetAt(@, r.idx, NodeOffset(At(r.pool.Data, r.idx), mouse))]

\* GraphBehaviour: for(ImGuiID node : Graph.Selected) on a click
RECURSIVE SetOffsets(_, _, _)
SetOffsets(nodes, members, mouse) ==
    IF members = <<>> THEN nodes
    ELSE SetOffsets(OffsetSet(PoolGet(nodes, DefaultNode, Head(members).Value), mouse),
                    Tail(members), mouse)

\* GraphBehaviour: Nodes[node].Root = mouse - Nodes[node].DragOffset, snapped
\* to the grid when Alt is held
NodeRoot(Node, g, mouse, mods) ==
    [Node EXCEPT !.Root = IF mods = "alt" THEN SnapToGrid(g, VSub(mouse, Node.DragOffset))
                          ELSE VSub(mouse, Node.DragOffset)]

RootSet(r, g, mouse, mods) ==
    [r.pool EXCEPT !.Data = SetAt(@, r.idx, NodeRoot(At(r.pool.Data, r.idx), g, mouse, mods))]

\* GraphBehaviour: for(ImGuiID node : Graph.Selected) on a drag
RECURSIVE SetRoots(_, _, _, _, _)
SetRoots(nodes, members, g, mouse, mods) ==
    IF members = <<>> THEN nodes
    ELSE SetRoots(RootSet(PoolGet(nodes, DefaultNode, Head(members).Value), g, mouse, mods),
                  Tail(members), g, mouse, mods)

\* GraphBehaviour: IsMouseClicked(ImGuiMouseButton_Left)
GraphClicked(g, io) ==
    IF io.ev # "click" THEN g
    ELSE IF ~g.FocusedNode.Set
    THEN [g EXCEPT !.Selected = IF io.mods = "none" THEN EmptySet ELSE @]
    ELSE [g EXCEPT !.Nodes =
             OffsetSet(PoolGet(SetOffsets(@, SetMembers(g.Selected), ScreenToGrid(g, GetMousePos(io))),
                               DefaultNode, g.FocusedNode.Value),
                       ScreenToGrid(g, GetMousePos(io)))]

\* GraphBehaviour: IsMouseReleased(ImGuiMouseButton_Left); dragging is the value
\* read from Graph.Dragging
GraphReleased(g, io, dragging) ==
    IF io.ev # "release" THEN g
    ELSE [g EXCEPT !.Selected = IF g.FocusedNode.Set /\ ~dragging
                                THEN UpdateSelection(@, io.mods, g.FocusedNode.Value, TRUE, FALSE)
                                ELSE @,
                   !.FocusedNode = OptReset(@),
                   !.SelectRegionStart = OptReset(@),
                   !.SelectRegion = EmptySet,
                   !.Dragging = {FALSE}]

\* GraphBehaviour: the focused node is dragged, with the selection sel
DragNodes(g, io, sel) ==
    [g EXCEPT !.Selected = sel,
              !.Nodes = SetRoots(@, SetMembers(sel), g, ScreenToGrid(g, GetMousePos(io)), io.mods),
              !.Dragging = {TRUE}]

\* GraphBehaviour: IsMouseDragging(ImGuiMouseButton_Left)
GraphDragged(g, io) ==
    IF io.ev # "drag" THEN g
    ELSE IF g.FocusedNode.Set
    THEN DragNodes(g, io, IF SetContains(g.Selected, g.FocusedNode.Value) THEN g.Selected
                          ELSE UpdateSelection(g.Selected, io.mods, g.FocusedNode.Value, TRUE, FALSE))
    ELSE IF ~g.SelectRegionStart.Set /\ ~g.LockSelectRegion
    THEN [g EXCEPT !.SelectRegionStart = SomePoint(io.mouse)]
    ELSE g

\* GraphBehaviour: panning with the middle button
PanStarted(g, io, Hovered) ==
    [g EXCEPT !.IsPanning = IF io.middle = "release" THEN FALSE
                            ELSE IF Hovered /\ io.middle = "click" THEN TRUE
                            ELSE @]

\* GraphBehaviour: Camera.Position -= MouseDelta / Camera.Scale while panning
PanMoved(g, io) ==
    IF g.IsPanning
    THEN [g EXCEPT !.Camera.Position = VSub(@, VDiv(io.delta, g.Camera.Scale))]
    ELSE g

GraphPanned(g, io, Hovered) == PanMoved(PanStarted(g, io, Hovered), io)

\* GraphBehaviour: IsKeyPressed(ImGuiKey_T)
GraphKeyT(g, io) ==
    IF ~io.keyT THEN g
    ELSE IF g.Nodes.IdxToID = <<>> THEN [g EXCEPT !.Failed = TRUE]
    ELSE [g EXCEPT !.Nodes = PoolPushToTop(@, At(g.Nodes.IdxToID, 0))]

\* ---------------------------------------------------------------------------
\* The host and the frame
\* ---------------------------------------------------------------------------

Ptr(n, p, d) == [Node |-> n, Pin |-> p, Direction |-> d]

\* the pins the host declares: node 1 with an output, node 2 with two inputs
\* (ids are nonzero hashes)
HostPins == {Ptr(1, 1, Output), Ptr(2, 1, Input), Ptr(2, 2, Input)}

\* the pairs the host passes to MakeConnection: two connectable pairs, one
\* of them in both orders, a pair on one node and a pair of one direction
HostPairs ==
    {<<Ptr(1, 1, Output), Ptr(2, 1, Input)>>, <<Ptr(2, 1, Input), Ptr(1, 1, Output)>>,
     <<Ptr(1, 1, Output), Ptr(2, 2, Input)>>, <<Ptr(1, 1, Output), Ptr(1, 2, Input)>>,
     <<Ptr(2, 1, Input), Ptr(2, 2, Input)>>}

\* the pins the host names in BreakConnections and in the queries
HostQueried == {Ptr(1, 1, Output), Ptr(2, 1, Input)}

HostNodes == {p.Node : p \in HostPins}

Validations == {"null", "samePinId"}

\* the screen bounds the layout gives the nodes: nodes 1 and 8 overlap, node 20
\* lies right of them and left of the empty space
NodeBounds(id) ==
    CASE id = 1 -> Rect(0, 0, 4, 2)
      [] id = 8 -> Rect(2, 0, 6, 2)
      [] id = 20 -> Rect(8, 0, 10, 2)
      [] OTHER -> Rect(12, 0, 14, 2)

\* EndGraph: { Graph->Pos, Graph->Pos + Graph->Size }
GridBounds == Rect(0, 0, 16, 4)

\* a pointer position over empty space of the grid
EmptySpace == Pt(11, 1)

\* a pointer position over the node id and over no other node
NodePoint(id) == Pt(NodeBounds(id).Min.x + 1, 1)

\* the input of a frame: window focus, the left button (ev), IO.KeyMods, the
\* pin and the position under the pointer, the middle button, an item of the
\* host hovered or active (item), an item focused, the key T
IdleIO ==
    [focused |-> TRUE, ev |-> "none", mods |-> "none", hover |-> NoPin, mouse |-> EmptySpace,
     middle |-> "none", item |-> FALSE, itemFocused |-> FALSE, keyT |-> FALSE,
     wheel |-> Float(0), dt |-> 1, delta |-> Vec(0, 0), origin |-> Vec(0, 0), size |-> Vec(16, 4)]

\* the input of a frame with the pointer over the pin p
OverPin(p) == [IdleIO EXCEPT !.hover = SomePin(p), !.mouse = NodePoint(p.Node)]

\* the inputs of a frame that the pin and connection code distinguishes
Inputs ==
    {IdleIO, [IdleIO EXCEPT !.ev = "release"],
     [IdleIO EXCEPT !.focused = FALSE], [IdleIO EXCEPT !.focused = FALSE, !.ev = "release"]}
    \cup {[OverPin(p) EXCEPT !.ev = "click"] : p \in HostPins}
    \cup {[OverPin(p) EXCEPT !.ev = "release"] : p \in HostPins}
    \cup {[OverPin(p) EXCEPT !.ev = "release", !.mods = "alt"] : p \in HostPins}

\* the frame of the host: its number, the nodes and pins declared in it, the
\* calls of the connection interface made in it, and the left button: up,
\* pressed (down, not moved since the press), dragged (down and moved),
\* clicked (released without a move since the press) or dropped
NoFrame == [n |-> 0, nodes |-> {}, pins |-> {}, calls |-> 0, button |-> "up"]

\* the left button after the event ev of a frame
Button(button, ev) ==
    CASE ev = "click" -> "pressed"
      [] ev = "drag" -> "dragged"
      [] ev = "release" -> IF button = "pressed" THEN "clicked" ELSE "dropped"
      [] OTHER -> "up"

NoCallG ==
    [op |-> "none", io |-> IdleIO, a |-> NullPtr, b |-> NullPtr, id |-> nullidx, ret |-> FALSE,
     title |-> "", pos |-> Vec(0, 0), res |-> Vec(0, 0)]

PoolPins(node) ==
    {node.InputPins.Data[p] : p \in DOMAIN node.InputPins.Data}
    \cup {node.OutputPins.Data[p] : p \in DOMAIN node.OutputPins.Data}

AllPins(g) == UNION {PoolPins(g.Nodes.Data[n]) : n \in DOMAIN g.Nodes.Data}

\* the bounds of the model on the lists that can grow
Bounded(g) ==
    /\ Len(g.Connections.Data) <= MaxConns
    /\ \A pin \in AllPins(g) :
          Len(pin.NewConnections) <= MaxList /\ Len(pin.ErasedConnections) <= MaxList

\* the titles the host gives its graphs
Titles == {"A", "B"}

\* ImNodeGraphContext::ImNodeGraphContext. Graph is the ImNodeGraphData that
\* was opened last and Title its title ("" before the first graph is
\* created); Closed holds the other graphs of the registry by title.
\* CurrentGraph is "the CurrentGraph pointer is not null"; Asserted is set
\* by the IM_ASSERT that fails, which aborts the program.
InitCtx ==
    [Asserted |-> FALSE, CurrentGraph |-> FALSE, Title |-> "",
     GraphsById |-> {}, Graphs |-> <<>>, Closed |-> [t \in {} |-> InitGraph]]

MaxContexts == 3

ContextIds == 1..MaxContexts

\* the null ImNodeGraphContext*
NoContext == 0

\* memory that holds no context
FreedContext == [Live |-> FALSE, Initialized |-> FALSE, GraphsById |-> {}, Graphs |-> <<>>]

\* ImNodeGraphContext::ImNodeGraphContext()
NewContext == [Live |-> TRUE, Initialized |-> FALSE, GraphsById |-> {}, Graphs |-> <<>>]

\* Initialize(): G.Initialized = true
Initialize(ctx) == [ctx EXCEPT !.Initialized = TRUE]

\* Shutdown that leaves the graphs alone
Shutdown_KeepsGraphs(ctx) == ctx

\* Shutdown(): G.Graphs.clear_delete()
Shutdown(ctx) == [ctx EXCEPT !.Graphs = <<>>]

\* the context the host created before its first frame is the current one
InitContexts ==
    /\ GImNodeGraph = 1
    /\ Contexts = [c \in ContextIds |-> IF c = 1 THEN Initialize(NewContext) ELSE FreedContext]

Init ==
    /\ InitPool
    /\ InitSet
    /\ InitContexts
    /\ Scope = "None"
    /\ Graph = InitGraph
    /\ IO = IdleIO
    /\ Frame = NoFrame
    /\ Last = NoCallG
    /\ Ctx = InitCtx

\* a call of the host that is not one of the connection interface
Called(op) == [NoCallG EXCEPT !.op = op]

\* an IM_ASSERT of the call op fails: the program is aborted
Abort(op) ==
    /\ ~Ctx.Asserted
    /\ Ctx' = [Ctx EXCEPT !.Asserted = TRUE]
    /\ Last' = Called(op)

FindGraphByTitle_NeverFinds(ctx, title) == FALSE

\* FindGraphByTitle / FindGraphByID: the pointer found is not null
FindGraphByTitle(ctx, title) == title \in ctx.GraphsById

\* the graphs of the registry that are not held in Graph, once the graph
\* titled title has been taken out and the graph g held so far put back
CloseGraph(ctx, g, title) ==
    [t \in ((DOMAIN ctx.Closed \cup (IF ctx.Title = "" THEN {} ELSE {ctx.Title})) \ {title}) |->
        IF t = ctx.Title THEN g ELSE ctx.Closed[t]]

\* CreateNewGraph: GraphsById.SetVoidPtr and Graphs.push_back
CreateNewGraph(ctx, title) ==
    [ctx EXCEPT !.GraphsById = @ \cup {title}, !.Graphs = Append(@, title)]

\* BeginGraph: the graph found by its title, or the graph created
GraphOf(ctx, g, title) ==
    IF title = ctx.Title THEN g
    ELSE IF FindGraphByTitle(ctx, title) THEN ctx.Closed[title]
    ELSE InitGraph

\* BeginGraph: the context once G.CurrentGraph points to the graph titled title
OpenGraph(ctx, g, title) ==
    [(IF FindGraphByTitle(ctx, title) THEN ctx ELSE CreateNewGraph(ctx, title))
        EXCEPT !.CurrentGraph = TRUE, !.Title = title, !.Closed = CloseGraph(ctx, g, title)]

\* BeginGraph: Selected.Erase(Nodes.IdxToID[Nodes.Freed[i]]) for i from first
\* on, in the pool that Cleanup left
RECURSIVE EraseFreed(_, _, _)
EraseFreed(sel, nodes, i) ==
    IF i >= Len(nodes.Freed) THEN sel
    ELSE EraseFreed(SetErase(sel, At(nodes.IdxToID, At(nodes.Freed, i))), nodes, i + 1)

\* BeginGraph: the loop over the last cnt + 1 entries of Freed
CleanupSelected(sel, nodes, cnt) ==
    EraseFreed(sel, nodes, Max2(Len(nodes.Freed) - cnt - 1, 0))

\* BeginGraph: LockSelectRegion = false, Nodes.Cleanup(), the loop over Freed,
\* Nodes.Reset() on the graph opened
GraphBegun(g) ==
    [g EXCEPT !.LockSelectRegion = FALSE,
              !.SubmitCount = 0,
              !.Splitter = SplitterNewFrame(@),
              !.Selected = CleanupSelected(@, PoolCleanup(g.Nodes), PoolCleanupCount(g.Nodes)),
              !.Nodes = PoolReset(PoolCleanup(@))]

\* BeginGraph: Graph->Size = Size, Graph->Pos = GetCursorScreenPos()
GraphPlaced(g, io) == [g EXCEPT !.Size = io.size, !.Pos = io.origin]

BeginGraphChecks_Reentrant == TRUE

\* BeginGraph / BeginGraphPostOp: the assertion on the scope
BeginGraphChecks == Scope = "None"

\* BeginGraph(title, size)
BeginGraph(title, io) ==
    /\ ~Ctx.Asserted
    /\ BeginGraphChecks
    /\ ~Graph.Failed
    /\ Graph' = GraphPlaced(GraphBegun(GraphOf(Ctx, Graph, title)), io)
    /\ Ctx' = OpenGraph(Ctx, Graph, title)
    /\ Scope' = "Graph"
    /\ IO' = io
    /\ Frame' = [NoFrame EXCEPT !.n = Frame.n + 1, !.button = Button(Frame.button, io.ev)]
    /\ Last' = [Called("BeginGraph") EXCEPT !.title = title]
    /\ UNCHANGED <<pvars, svars, cvars>>

\* the pos the host passes to BeginNode(id, pos): the grid position that the
\* camera as constructed shows at the corner of the node's bounds
NodePos(id) == Vec(NodeBounds(id).Min.x - 8, NodeBounds(id).Min.y - 2)

NodeSetup_TakesPos(Node, id, pos) == [Node EXCEPT !.Graph = TRUE, !.ID = id, !.Root = pos]

\* BeginNode: the initialisation of a node seen for the first time, at the
\* pos of the caller
NodeSetup(Node, id, pos) ==
    IF ~Node.Graph THEN [Node EXCEPT !.Graph = TRUE, !.ID = id, !.Root = pos] ELSE Node

NodeReset_KeepsHeader(Node) ==
    [Node EXCEPT !.InputPins = PoolReset(PoolCleanup(@)),
                 !.OutputPins = PoolReset(PoolCleanup(@))]

\* BeginNode: InputPins / OutputPins Cleanup() and Reset(), Header.Reset()
NodeReset(Node) ==
    [Node EXCEPT !.InputPins = PoolReset(PoolCleanup(@)),
                 !.OutputPins = PoolReset(PoolCleanup(@)),
                 !.Header = FALSE]

\* BeginNode: BgChannelIndex = PushChannels(2), FgChannelIndex = BgChannelIndex + 1
NodeChannels(Node, bg) == [Node EXCEPT !.BgChannelIndex = bg, !.FgChannelIndex = bg + 1]

\* BeginNode once Graph->Nodes[id] has been looked up (r); what the host
\* draws in the scope of the node goes to the channel FgChannelIndex
NodeFound(g, id, pos, r) ==
    [g EXCEPT !.Nodes = [r.pool EXCEPT !.Data =
                            SetAt(@, r.idx, NodeChannels(NodeReset(NodeSetup(At(r.pool.Data, r.idx), id, pos)),
                                                         g.Splitter.Count))],
              !.CurrentNode = r.idx,
              !.SubmitCount = @ + 1,
              !.Splitter = DrawInto(PushChannels(@, 2), g.Splitter.Count + 1, Drawn(id, TRUE))]

\* BeginNode: the assertion on the scope
BeginNodeChecks == Scope = "Graph" /\ Ctx.CurrentGraph

\* BeginNode(id, pos); the call returns in pos the root of the node (res)
BeginNodeAt(id, pos) ==
    /\ ~Ctx.Asserted
    /\ BeginNodeChecks
    /\ Frame.calls = 0
    /\ \A n \in Frame.nodes : n < id
    /\ Graph' = NodeFound(Graph, id, pos, PoolGet(Graph.Nodes, DefaultNode, id))
    /\ Scope' = "Node"
    /\ Frame' = [Frame EXCEPT !.nodes = @ \cup {id}]
    /\ Last' = [Called("BeginNode") EXCEPT !.id = id, !.pos = pos,
                                           !.res = At(Graph'.Nodes.Data, Graph'.CurrentNode).Root]
    /\ UNCHANGED <<IO, pvars, svars, cvars, Ctx>>

\* BeginNode(id, pos) of a host that passes the same pos in every frame
BeginNode(id) == BeginNodeAt(id, NodePos(id))

\* the ImNodeData Graph->CurrentNode points to
CurrentNode(g) == At(g.Nodes.Data, g.CurrentNode)

\* BeginNodeHeader: the assertions on the scope and on the header
BeginNodeHeaderScope == Ctx.CurrentGraph /\ Scope = "Node" /\ Graph.CurrentNode # nullidx

BeginNodeHeaderChecks == BeginNodeHeaderScope /\ ~CurrentNode(Graph).Header

\* Node->Header = ImNodeHeaderData{...} / Node.Header.Reset()
SetHeader(g, set) ==
    [g EXCEPT !.Nodes = [@ EXCEPT !.Data =
                            SetAt(@, g.CurrentNode, [CurrentNode(g) EXCEPT !.Header = set])]]

\* BeginNodeHeader(id, color, hovered, active)
BeginNodeHeader ==
    /\ ~Ctx.Asserted
    /\ BeginNodeHeaderChecks
    /\ Graph' = SetHeader(Graph, TRUE)
    /\ Scope' = "NodeHeader"
    /\ Last' = Called("BeginNodeHeader")
    /\ UNCHANGED <<IO, Frame, pvars, svars, cvars, Ctx>>

\* EndNodeHeader: the assertions on the scope and on the header
EndNodeHeaderChecks ==
    /\ Ctx.CurrentGraph /\ Scope = "NodeHeader" /\ Graph.CurrentNode # nullidx
    /\ CurrentNode(Graph).Header

\* EndNodeHeader()
EndNodeHeader ==
    /\ ~Ctx.Asserted
    /\ EndNodeHeaderChecks
    /\ Scope' = "Node"
    /\ Last' = Called("EndNodeHeader")
    /\ UNCHANGED <<Graph, IO, Frame, pvars, svars, cvars, Ctx>>

\* BeginPin: the flags and the fields written into the pin
PinSetup(Pin, node, id, direction) ==
    [Pin EXCEPT !.BNewConnections = FALSE, !.BErasedConnections = FALSE,
                !.Node = node, !.ID = id, !.Direction = direction]

\* BeginPin: changed
PinChanged(Pin) == Pin.NewConnections # <<>> \/ Pin.ErasedConnections # <<>>

\* BeginPin once the pin has been looked up in the pool of its direction (r)
PinFound(g, n, Node, id, direction, r) ==
    [g EXCEPT !.Nodes = [@ EXCEPT !.Data =
                            SetAt(@, n,
                                  WithPins(Node, direction,
                                           [r.pool EXCEPT !.Data =
                                               SetAt(@, r.idx,
                                                     PinSetup(At(r.pool.Data, r.idx),
                                                              Node.ID, id, direction))]))],
              !.CurrentPin = [n |-> n, d |-> direction, p |-> r.idx]]

\* BeginPin: PinHead for an input pin
PinHeadInput(g, io) ==
    IF PinAt(g.Nodes, g.CurrentPin).Direction = Input THEN PinHead(g, g.CurrentPin, io) ELSE g

\* BeginPin in the node Node at slot n: [g, ret]
PinBegin(g, io, n, Node, id, direction, r) ==
    [g   |-> PinHeadInput(PinFound(g, n, Node, id, direction, r), io),
     ret |-> PinChanged(At(r.pool.Data, r.idx))]

\* the graph and the return value of BeginPin(id, type, direction, flags)
BeginPinResult(g, io, id, direction) ==
    PinBegin(g, io, g.CurrentNode, At(g.Nodes.Data, g.CurrentNode), id, direction,
             PoolGet(PinsOf(At(g.Nodes.Data, g.CurrentNode), direction), DefaultPin, id))

\* the pointer of the pin BeginPin(id, direction) declares in the current node
CurrentPtr(g, id, direction) == Ptr(At(g.Nodes.Data, g.CurrentNode).ID, id, direction)

\* the host's call of BeginPin, given its result
BeginPinDone(id, direction, r) ==
    /\ Bounded(r.g)
    /\ Graph' = r.g
    /\ Last' = [NoCallG EXCEPT !.op = "BeginPin", !.a = CurrentPtr(Graph, id, direction),
                               !.ret = r.ret]

\* BeginPin: the assertion on the scope
BeginPinChecks == Ctx.CurrentGraph /\ Scope = "Node" /\ Graph.CurrentNode # nullidx

\* BeginPin(id, type, direction, flags)
BeginPin(id, direction) ==
    /\ ~Ctx.Asserted
    /\ BeginPinChecks
    /\ \A q \in Frame.pins : q.Node = CurrentPtr(Graph, id, direction).Node => q.Pin < id
    /\ BeginPinDone(id, direction, BeginPinResult(Graph, IO, id, direction))
    /\ Scope' = "Pin"
    /\ Frame' = [Frame EXCEPT !.pins = @ \cup {CurrentPtr(Graph, id, direction)}]
    /\ UNCHANGED <<IO, pvars, svars, cvars, Ctx>>

\* EndPin: PinHead for an output pin
PinHeadOutput(g, io) ==
    IF PinAt(g.Nodes, g.CurrentPin).Direction = Output THEN PinHead(g, g.CurrentPin, io) ELSE g

\* EndPin: the lists without their flag are cleared
\* PinClear with the flags ignored: the lists are never emptied
PinClear_KeepsLists(Pin) == Pin

PinClear(Pin) ==
    [Pin EXCEPT !.NewConnections = IF Pin.BNewConnections THEN @ ELSE <<>>,
                !.ErasedConnections = IF Pin.BErasedConnections THEN @ ELSE <<>>]

\* EndPin after PinHead
PinEnd(g) ==
    [g EXCEPT !.Nodes = SetPin(@, g.CurrentPin, PinClear(PinAt(g.Nodes, g.CurrentPin)))]

\* the host's call of EndPin, given the graph after PinHead
EndPinDone(g) ==
    /\ Bounded(g)
    /\ Graph' = PinEnd(g)

\* EndPin: the assertion on the scope
EndPinChecks == Ctx.CurrentGraph /\ Scope = "Pin" /\ Graph.CurrentPin # NoRef

\* EndPin()
EndPin ==
    /\ ~Ctx.Asserted
    /\ EndPinChecks
    /\ EndPinDone(PinHeadOutput(Graph, IO))
    /\ Scope' = "Node"
    /\ Last' = Called("EndPin")
    /\ UNCHANGED <<IO, Frame, pvars, svars, cvars, Ctx>>

\* EndNode: the assertions on the scope
EndNodeChecks == Ctx.CurrentGraph /\ Scope = "Node" /\ Graph.CurrentNode # nullidx

\* EndNode: Node.Header->ScreenBounds is read through ImOptional::operator->,
\* which asserts that the header is set
HeaderRead(ctx, Node) == IF Node.Header THEN ctx ELSE [ctx EXCEPT !.Asserted = TRUE]

\* EndNode(): the scope is popped before the header is read
EndNode ==
    /\ ~Ctx.Asserted
    /\ EndNodeChecks
    /\ Graph' = NodeEnded(Graph, IO, NodeBounds(CurrentNode(Graph).ID))
    /\ Scope' = "Graph"
    /\ Ctx' = HeaderRead(Ctx, CurrentNode(Graph))
    /\ Last' = Called("EndNode")
    /\ UNCHANGED <<IO, Frame, pvars, svars, cvars>>

\* DrawGraph(Graph): the scan of the nodes, the focused node pushed to the
\* top, then the pins and connections
DrawGraph(g, io) == DrawPins(DrawSorted(FocusToTop(DrawScan(g, io), g.FocusedNode)))

\* GraphBehaviour after the test of IsAnyItemFocused
GraphGestures(g, io, dragging) ==
    GraphKeyT(GraphPanned(GraphDragged(GraphReleased(g, io, dragging), io),
                          io, MouseIn(GridBounds, io.mouse)),
              io)

\* GraphBehaviour(grid_bounds); dragging is the value a read of Graph.Dragging gives
GraphBehaviour(g, io, dragging) ==
    IF g.NewConnection.Set THEN GraphUnfocused(g, io)
    ELSE IF io.itemFocused
    THEN GraphClicked(GraphZoomed(g, io, MouseIn(GridBounds, io.mouse)), io)
    ELSE GraphGestures(GraphClicked(GraphZoomed(g, io, MouseIn(GridBounds, io.mouse)), io),
                       io, dragging)

\* EndGraph: GraphBehaviour runs when the window is focused
GraphFocused(g, io, dragging) == IF io.focused THEN GraphBehaviour(g, io, dragging) ELSE g

\* EndGraph / EndGraphPostOp: the assertion on the scope
EndGraphChecks == Scope = "Graph" /\ Ctx.CurrentGraph

\* EndGraph(): DrawGraph, then GraphBehaviour when the window is focused
EndGraph ==
    /\ ~Ctx.Asserted
    /\ EndGraphChecks
    /\ \E dragging \in Graph.Dragging : Graph' = GraphFocused(DrawGraph(Graph, IO), IO, dragging)
    /\ Scope' = "None"
    /\ Ctx' = [Ctx EXCEPT !.CurrentGraph = FALSE]
    /\ IO' = IdleIO
    /\ Frame' = [NoFrame EXCEPT !.n = Frame.n, !.button = Frame.button]
    /\ Last' = [Called("EndGraph") EXCEPT !.io = IO]
    /\ UNCHANGED <<pvars, svars, cvars>>

\* BeginGraphPostOp: the context once G.CurrentGraph is what FindGraphByTitle
\* returned, which is null for a title without a graph
OpenPostOp(ctx, g, title) ==
    IF FindGraphByTitle(ctx, title)
    THEN [ctx EXCEPT !.CurrentGraph = TRUE, !.Title = title,
                     !.Closed = CloseGraph(ctx, g, title)]
    ELSE [ctx EXCEPT !.CurrentGraph = FALSE]

\* BeginGraphPostOp(title)
BeginGraphPostOp(title) ==
    /\ ~Ctx.Asserted
    /\ BeginGraphChecks
    /\ Graph' = IF FindGraphByTitle(Ctx, title) THEN GraphOf(Ctx, Graph, title) ELSE Graph
    /\ Ctx' = OpenPostOp(Ctx, Graph, title)
    /\ Scope' = "Graph"
    /\ Frame' = [NoFrame EXCEPT !.n = Frame.n + 1]
    /\ Last' = [Called("BeginGraphPostOp") EXCEPT !.title = title]
    /\ UNCHANGED <<IO, pvars, svars, cvars>>

\* EndGraphPostOp()
EndGraphPostOp ==
    /\ ~Ctx.Asserted
    /\ EndGraphChecks
    /\ Scope' = "None"
    /\ Ctx' = [Ctx EXCEPT !.CurrentGraph = FALSE]
    /\ Frame' = [NoFrame EXCEPT !.n = Frame.n]
    /\ Last' = Called("EndGraphPostOp")
    /\ UNCHANGED <<Graph, IO, pvars, svars, cvars>>

\* SetGraphValidation(validation)
SetGraphValidation(v) ==
    /\ ~Ctx.Asserted
    /\ Scope = "Graph" /\ Ctx.CurrentGraph
    /\ Frame.n = 1 /\ Frame.nodes = {} /\ Frame.calls = 0
    /\ Graph.Validation # v
    /\ Graph' = [Graph EXCEPT !.Validation = v]
    /\ Last' = Called("SetGraphValidation")
    /\ UNCHANGED <<Scope, IO, Frame, pvars, svars, cvars, Ctx>>

\* the host's call of MakeConnection, given its result
MakeConnectionDone(a, b, r) ==
    /\ Bounded(r.g)
    /\ Graph' = r.g
    /\ Last' = [NoCallG EXCEPT !.op = "MakeConnection", !.a = a, !.b = b, !.ret = r.ret]

\* the host's call of BreakConnection or BreakConnections, given its result
BreakDone(g) ==
    /\ Bounded(g)
    /\ Graph' = g

\* the host calls MakeConnection(a, b)
CallMakeConnection(a, b) ==
    /\ ~Ctx.Asserted
    /\ Scope = "Graph" /\ Ctx.CurrentGraph
    /\ Frame.calls < MaxCalls
    /\ MakeConnectionDone(a, b, MakeConnection(Graph, a, b))
    /\ Frame' = [Frame EXCEPT !.calls = @ + 1]
    /\ UNCHANGED <<Scope, IO, pvars, svars, cvars, Ctx>>

\* the host calls BreakConnection(id) with the id of a connection
CallBreakConnection(id) ==
    /\ ~Ctx.Asserted
    /\ Scope = "Graph" /\ Ctx.CurrentGraph
    /\ Frame.calls < MaxCalls
    /\ InRange(Graph.Connections.Active, id)
    /\ ListHas(Graph.Connections, id)
    /\ BreakDone(BreakConnection(Graph, id))
    /\ Last' = [NoCallG EXCEPT !.op = "BreakConnection", !.id = id,
                      !.a = At(Graph.Connections.Data, id).A,
                      !.b = At(Graph.Connections.Data, id).B]
    /\ Frame' = [Frame EXCEPT !.calls = @ + 1]
    /\ UNCHANGED <<Scope, IO, pvars, svars, cvars, Ctx>>

\* the host calls BreakConnections(ptr)
CallBreakConnections(ptr) ==
    /\ ~Ctx.Asserted
    /\ Scope = "Graph" /\ Ctx.CurrentGraph
    /\ Frame.calls < MaxCalls
    /\ BreakDone(BreakConnections(Graph, ptr))
    /\ Last' = [NoCallG EXCEPT !.op = "BreakConnections", !.a = ptr]
    /\ Frame' = [Frame EXCEPT !.calls = @ + 1]
    /\ UNCHANGED <<Scope, IO, pvars, svars, cvars, Ctx>>

\* GetConnections(pin): the list returned
FoundConnections(f) == PinAt(f.nodes, f.ref).Connections

GetConnections(g, ptr) == FoundConnections(FindPin(g.Nodes, ptr))

\* the host calls GetConnections(ptr) / IsPinConnected(ptr)
CallGetConnections(ptr) ==
    /\ ~Ctx.Asserted
    /\ Scope = "Graph" /\ Ctx.CurrentGraph
    /\ Frame.calls < MaxCalls
    /\ Graph' = [Graph EXCEPT !.Nodes = FindPin(Graph.Nodes, ptr).nodes]
    /\ Last' = [NoCallG EXCEPT !.op = "GetConnections", !.a = ptr]
    /\ Frame' = [Frame EXCEPT !.calls = @ + 1]
    /\ UNCHANGED <<Scope, IO, pvars, svars, cvars, Ctx>>

\* the host declares the header of a node before its pins
HeaderDeclared == Scope = "Node" /\ CurrentNode(Graph).Header

\* the host declares the pin p in the node it belongs to
HostPin(p) ==
    /\ HeaderDeclared
    /\ p.Node = CurrentNode(Graph).ID
    /\ BeginPin(p.Pin, p.Direction)

Next ==
    \/ \E io \in {IdleIO} : Frame.n < MaxFrames /\ BeginGraph("A", io)
    \/ \E id \in HostNodes : BeginNode(id)
    \/ BeginNodeHeader
    \/ EndNodeHeader
    \/ \E p \in HostPins : HostPin(p)
    \/ EndPin
    \/ HeaderDeclared /\ EndNode
    \/ EndGraph
    \/ \E v \in Validations : SetGraphValidation(v)
    \/ \E ab \in HostPairs : CallMakeConnection(ab[1], ab[2])
    \/ \E id \in 0..(MaxConns - 1) : CallBreakConnection(id)
    \/ \E p \in HostQueried : CallBreakConnections(p)
    \/ \E p \in HostQueried : CallGetConnections(p)

Spec == Init /\ [][Next]_vars

\* the frames of a host that makes no call of the connection interface, under
\* the pointer and key input of a user
NextInput ==
    \/ \E io \in Inputs : Frame.n < MaxFrames /\ BeginGraph("A", io)
    \/ \E id \in HostNodes : BeginNode(id)
    \/ BeginNodeHeader
    \/ EndNodeHeader
    \/ \E p \in HostPins : HostPin(p)
    \/ EndPin
    \/ HeaderDeclared /\ EndNode
    \/ EndGraph
    \/ \E v \in Validations : SetGraphValidation(v)

SpecInput == Init /\ [][NextInput]_vars

\* the inputs of the user who breaks connections: the left button released
\* with Alt held over the head of a pin
BreakInputs ==
    {IdleIO} \cup {[OverPin(p) EXCEPT !.ev = "release", !.mods = "alt"] : p \in HostPins}

\* the pairs the host of that user connects
BreakPairs ==
    {<<Ptr(1, 1, Output), Ptr(2, 1, Input)>>, <<Ptr(1, 1, Output), Ptr(2, 2, Input)>>}

\* the frames of a host that makes connections and breaks those of a pin,
\* under the input of a user who breaks connections
NextBreak ==
    \/ \E io \in BreakInputs : Frame.n < MaxFrames /\ BeginGraph("A", io)
    \/ \E id \in HostNodes : BeginNode(id)
    \/ BeginNodeHeader
    \/ EndNodeHeader
    \/ \E p \in HostPins : HostPin(p)
    \/ EndPin
    \/ HeaderDeclared /\ EndNode
    \/ EndGraph
    \/ \E ab \in BreakPairs : CallMakeConnection(ab[1], ab[2])
    \/ \E p \in HostQueried : CallBreakConnections(p)

SpecBreak == Init /\ [][NextBreak]_vars

\* the pool on its own, driven by the calls of its interface
SpecPool == Init /\ [][NextPool]_vars

\* the stand-alone set under every sequence of Insert, Erase and Clear
SpecSet == Init /\ [][NextSet]_vars

\* the nodes of the host whose user selects: each has a header and no pin
SelectNodes == {1, 8, 20}

\* the nodes that host declares in every frame; it may leave out the others
SteadyNodes == {1, 8}

\* the left button at the pointer position pt, with the modifier keys mods
Mouse(ev, mods, pt) == [IdleIO EXCEPT !.ev = ev, !.mods = mods, !.mouse = pt]

\* the inputs of a frame that the selection code distinguishes: the pointer
\* over both of nodes 1 and 8, over node 20, on the right edge of node 20 and
\* over empty space
SelectInputs ==
    {IdleIO, Mouse("none", "none", Pt(3, 1)),
     Mouse("click", "none", Pt(3, 1)), Mouse("click", "none", Pt(9, 1)),
     Mouse("click", "ctrl", Pt(9, 1)), Mouse("click", "none", Pt(11, 1)),
     Mouse("drag", "none", Pt(11, 1)), Mouse("drag", "none", Pt(3, 1)),
     Mouse("drag", "none", Pt(9, 1)), Mouse("drag", "none", Pt(10, 1)),
     Mouse("drag", "ctrl", Pt(3, 1)), Mouse("drag", "shift", Pt(9, 1)),
     [Mouse("drag", "none", Pt(11, 1)) EXCEPT !.middle = "click"],
     [IdleIO EXCEPT !.middle = "release"],
     [IdleIO EXCEPT !.item = TRUE], [IdleIO EXCEPT !.itemFocused = TRUE],
     [IdleIO EXCEPT !.keyT = TRUE], [IdleIO EXCEPT !.focused = FALSE],
     Mouse("release", "none", Pt(9, 1)), Mouse("release", "ctrl", Pt(9, 1)),
     Mouse("release", "shift", Pt(9, 1)), Mouse("release", "none", Pt(11, 1))}

\* the left button is pressed when it is up, and dragged or released when it
\* is held down
ButtonFollows(button, io) ==
    IF button \in {"pressed", "dragged"} THEN io.ev \in {"drag", "release"}
    ELSE io.ev \in {"none", "click"}

\* the frames of a host that declares nodes with a header, under the pointer
\* and key input of a user who selects, drags and pans
NextSelect ==
    \/ \E io \in SelectInputs :
          Frame.n < MaxSelectFrames /\ ButtonFollows(Frame.button, io) /\ BeginGraph("A", io)
    \/ \E id \in SelectNodes :
          (\A j \in SelectNodes : j < id => j \in Frame.nodes) /\ BeginNode(id)
    \/ BeginNodeHeader
    \/ EndNodeHeader
    \/ HeaderDeclared /\ EndNode
    \/ SteadyNodes \subseteq Frame.nodes /\ EndGraph

SpecSelect == Init /\ [][NextSelect]_vars

MaxNodeFrames == 3

\* the pos a host passes to BeginNode: nodes 1 and 8 are given the same pos
\* in every frame, node 20 that pos or another one
NodePositions(id) == IF id = 20 THEN {NodePos(id), Vec(1, 1)} ELSE {NodePos(id)}

\* the left button pressed over node 20, dragged by one unit and released
NodeInputs ==
    {IdleIO, Mouse("click", "none", Pt(9, 1)), Mouse("drag", "none", Pt(10, 1)),
     Mouse("release", "none", Pt(10, 1))}

\* the frames of a host that declares any of its three nodes in a frame and
\* may pass another pos for node 20 from one frame to the next
NextNodes ==
    \/ \E io \in NodeInputs :
          Frame.n < MaxNodeFrames /\ ButtonFollows(Frame.button, io) /\ BeginGraph("A", io)
    \/ \E id \in SelectNodes : \E pos \in NodePositions(id) : BeginNodeAt(id, pos)
    \/ BeginNodeHeader
    \/ EndNodeHeader
    \/ HeaderDeclared /\ EndNode
    \/ EndGraph

SpecNodes == Init /\ [][NextNodes]_vars

\* CreateContext(), IM_NEW returning the address ctx: the context is made
\* current and initialized, and the former current context, if there was one,
\* is restored
CreateContext(ctx) ==
    /\ ~Ctx.Asserted
    /\ ~Contexts[ctx].Live
    /\ Contexts' = [Contexts EXCEPT ![ctx] = Initialize(NewContext)]
    /\ GImNodeGraph' = IF GImNodeGraph # NoContext THEN GImNodeGraph ELSE ctx
    /\ Last' = [Called("CreateContext") EXCEPT !.id = ctx]
    /\ UNCHANGED <<Scope, Graph, IO, Frame, Ctx, pvars, svars>>

\* DestroyContext: the context to destroy, the current one for a null argument
Destroyed(ctx) == IF ctx = NoContext THEN GImNodeGraph ELSE ctx

\* DestroyContext(ctx): Shutdown() on the context, IM_DELETE, and the current
\* context restored, or cleared when it is the one destroyed
DestroyContext(ctx) ==
    /\ ~Ctx.Asserted
    /\ Destroyed(ctx) # NoContext
    /\ Contexts[Destroyed(ctx)].Initialized
    /\ Contexts' = [Contexts EXCEPT ![Destroyed(ctx)] =
                        [Shutdown(@) EXCEPT !.Live = FALSE, !.Initialized = FALSE, !.GraphsById = {}]]
    /\ GImNodeGraph' = IF GImNodeGraph = Destroyed(ctx) THEN NoContext ELSE GImNodeGraph
    /\ Last' = [Called("DestroyContext") EXCEPT !.id = ctx]
    /\ UNCHANGED <<Scope, Graph, IO, Frame, Ctx, pvars, svars>>

\* DestroyContext(nullptr) without a current context: Shutdown() reads
\* G.Initialized through the null GImNodeGraph
DestroyContextFails ==
    /\ GImNodeGraph = NoContext
    /\ Abort("DestroyContext")
    /\ UNCHANGED <<Scope, Graph, IO, Frame, pvars, svars, cvars>>

\* SetCurrentContext(ctx)
SetCurrentContext(ctx) ==
    /\ ~Ctx.Asserted
    /\ GImNodeGraph' = ctx
    /\ Last' = [Called("SetCurrentContext") EXCEPT !.id = ctx]
    /\ UNCHANGED <<Contexts, Scope, Graph, IO, Frame, Ctx, pvars, svars>>

\* the first BeginGraph(title) of a title in the current context:
\* CreateNewGraph(title)
ContextGraph(title) ==
    /\ ~Ctx.Asserted
    /\ GImNodeGraph # NoContext
    /\ ~FindGraphByTitle(Contexts[GImNodeGraph], title)
    /\ Contexts' = [Contexts EXCEPT ![GImNodeGraph] = CreateNewGraph(@, title)]
    /\ Last' = [Called("BeginGraph") EXCEPT !.title = title]
    /\ UNCHANGED <<GImNodeGraph, Scope, Graph, IO, Frame, Ctx, pvars, svars>>

\* the contexts that are allocated
LiveContexts == {c \in ContextIds : Contexts[c].Live}

\* a host that creates contexts, makes one of them or none current, opens
\* graphs in the current one and destroys contexts
NextContext ==
    \/ \E ctx \in ContextIds : CreateContext(ctx)
    \/ \E ctx \in LiveContexts \cup {NoContext} : DestroyContext(ctx)
    \/ DestroyContextFails
    \/ \E ctx \in LiveContexts \cup {NoContext} : SetCurrentContext(ctx)
    \/ \E title \in {"A", "B"} : ContextGraph(title)

SpecContext == Init /\ [][NextContext]_vars

\* the coordinate transforms the host can call in the scope of a graph
Transforms ==
    {"GridToScreen", "ScreenToGrid", "GridToWindow", "WindowToScreen", "ScreenToWindow",
     "WindowToGrid"}

Transformed(op, g, pos) ==
    CASE op = "GridToScreen" -> GridToScreen(g, pos)
      [] op = "ScreenToGrid" -> ScreenToGrid(g, pos)
      [] op = "GridToWindow" -> GridToWindow(g, pos)
      [] op = "WindowToScreen" -> WindowToScreen(g, pos)
      [] op = "ScreenToWindow" -> ScreenToWindow(g, pos)
      [] op = "WindowToGrid" -> WindowToGrid(g, pos)

\* a call of one of the transforms on the position pos
CallTransform(op, pos) ==
    /\ ~Ctx.Asserted
    /\ Ctx.CurrentGraph /\ Scope = "Graph"
    /\ Last' = [Called(op) EXCEPT !.pos = pos, !.res = Transformed(op, Graph, pos)]
    /\ UNCHANGED <<Graph, Scope, IO, Frame, Ctx, pvars, svars, cvars>>

MaxCameraFrames == 3

\* the positions the host transforms: whole and fractional coordinates
CameraPoints == {Pt(x, Float(1)) : x \in {Float(3), Float(3) + 8, Float(11), 0 - Float(2)}}

\* the frames of a user who turns the wheel, over the grid or beside it, and
\* pans with the middle button, with 1/64, 3/32, 1/8 and 1/4 of a second
\* between two frames, in a window at one of two places
Wheel(w, dt) == [IdleIO EXCEPT !.wheel = Float(w), !.dt = dt]

CameraInputs ==
    {Wheel(w, dt) : w \in {0 - 1, 0, 1}, dt \in {1, 6, 8, 16}}
    \cup {[Wheel(1, 1) EXCEPT !.mouse = Pt(17, 1)],
          [IdleIO EXCEPT !.origin = Vec(5, 3)],
          [IdleIO EXCEPT !.middle = "click", !.delta = Vec(1, 0)],
          [IdleIO EXCEPT !.delta = Vec(3, 1)],
          [IdleIO EXCEPT !.middle = "release"]}

\* the frames of a host that declares no node and calls the transforms
NextCamera ==
    \/ \E io \in CameraInputs : Frame.n < MaxCameraFrames /\ BeginGraph("A", io)
    \/ \E op \in Transforms, pos \in CameraPoints : CallTransform(op, pos)
    \/ EndGraph

SpecCamera == Init /\ [][NextCamera]_vars

MaxPanFrames == 3

\* the frames of a user who pans: the middle button pressed over the grid or
\* beside it, the pointer moved, the button released, the window or an item
\* of the host having the focus or not, and a turn of the wheel
PanInputs ==
    {[IdleIO EXCEPT !.middle = "click", !.delta = Vec(1, 0)],
     [IdleIO EXCEPT !.middle = "click", !.mouse = Pt(17, 1)],
     [IdleIO EXCEPT !.delta = Vec(3, 1)],
     [IdleIO EXCEPT !.delta = Vec(3, 1), !.focused = FALSE],
     [IdleIO EXCEPT !.delta = Vec(3, 1), !.itemFocused = TRUE],
     [IdleIO EXCEPT !.middle = "release"],
     [IdleIO EXCEPT !.middle = "release", !.focused = FALSE],
     [IdleIO EXCEPT !.middle = "release", !.itemFocused = TRUE],
     Wheel(0 - 1, 8)}

\* the frames of a host that declares no node
NextPan ==
    \/ \E io \in PanInputs : Frame.n < MaxPanFrames /\ BeginGraph("A", io)
    \/ EndGraph

SpecPan == Init /\ [][NextPan]_vars

MaxStaleFrames == 3

\* the pins of the host whose user selects nodes: an output pin on node 1
\* and an input pin on node 2, connected by the host in the first frame
StalePins == {Ptr(1, 1, Output), Ptr(2, 1, Input)}

\* the left button pressed and released over node 2 and pressed over node 1
StaleInputs ==
    {IdleIO, Mouse("click", "none", NodePoint(2)), Mouse("release", "none", NodePoint(2)),
     Mouse("click", "none", NodePoint(1))}

\* the frames of a host that connects two pins, under a user who clicks on
\* the nodes; the host may stop declaring a node or a pin
NextStale ==
    \/ \E io \in StaleInputs :
          Frame.n < MaxStaleFrames /\ ButtonFollows(Frame.button, io) /\ BeginGraph("A", io)
    \/ \E id \in HostNodes : BeginNode(id)
    \/ BeginNodeHeader
    \/ EndNodeHeader
    \/ \E p \in StalePins : HostPin(p)
    \/ EndPin
    \/ HeaderDeclared /\ EndNode
    \/ EndGraph
    \/ Frame.n = 1 /\ StalePins \subseteq Frame.pins
          /\ CallMakeConnection(Ptr(1, 1, Output), Ptr(2, 1, Input))

SpecStale == Init /\ [][NextStale]_vars

\* a call whose assertion on the scope fails
CallFails(op) ==
    /\ Abort(op)
    /\ UNCHANGED <<Scope, Graph, IO, Frame, pvars, svars, cvars>>

BeginGraphFails == ~BeginGraphChecks /\ CallFails("BeginGraph")

BeginGraphPostOpFails == ~BeginGraphChecks /\ CallFails("BeginGraphPostOp")

EndGraphFails == ~EndGraphChecks /\ CallFails("EndGraph")

EndGraphPostOpFails == ~EndGraphChecks /\ CallFails("EndGraphPostOp")

BeginNodeFails == ~BeginNodeChecks /\ CallFails("BeginNode")

BeginNodeHeaderFails == ~BeginNodeHeaderChecks /\ CallFails("BeginNodeHeader")

EndNodeHeaderFails == ~EndNodeHeaderChecks /\ CallFails("EndNodeHeader")

BeginPinFails == ~BeginPinChecks /\ CallFails("BeginPin")

EndPinFails == ~EndPinChecks /\ CallFails("EndPin")

EndNodeFails == ~EndNodeChecks /\ CallFails("EndNode")

\* the pin the host of NextScope declares in a node, after or before the header
ScopePin(p) ==
    /\ BeginPinChecks
    /\ p.Node = CurrentNode(Graph).ID
    /\ BeginPin(p.Pin, p.Direction)

\* the pair of pins this host connects
ScopePairs == {<<Ptr(1, 1, Output), Ptr(2, 1, Input)>>}

\* a host that makes the declaration calls in any order, in any scope, on
\* two graphs, with and without a header
NextScope ==
    \/ \E t \in Titles : Frame.n < MaxScopeFrames /\ BeginGraph(t, IdleIO)
    \/ \E t \in Titles : Frame.n < MaxScopeFrames /\ BeginGraphPostOp(t)
    \/ \E id \in HostNodes : BeginNode(id)
    \/ BeginNodeHeader
    \/ EndNodeHeader
    \/ \E p \in {Ptr(1, 1, Output)} : ScopePin(p)
    \/ EndPin
    \/ EndNode
    \/ EndGraph
    \/ EndGraphPostOp
    \/ \E ab \in ScopePairs : Frame.n = 1 /\ Frame.calls = 0 /\ CallMakeConnection(ab[1], ab[2])
    \/ BeginGraphFails
    \/ BeginGraphPostOpFails
    \/ EndGraphFails
    \/ EndGraphPostOpFails
    \/ BeginNodeFails
    \/ BeginNodeHeaderFails
    \/ EndNodeHeaderFails
    \/ BeginPinFails
    \/ EndPinFails
    \/ EndNodeFails

SpecScope == Init /\ [][NextScope]_vars

\* ---------------------------------------------------------------------------
\* Properties of connections
\* ---------------------------------------------------------------------------

ConnIds(g) == {i \in 0..(Len(g.Connections.Active) - 1) : ListHas(g.Connections, i)}

\* the ids of the connections of the graph's list that have ptr as an endpoint
ConnsOf(g, ptr) ==
    {i \in ConnIds(g) : At(g.Connections.Data, i).A = ptr \/ At(g.Connections.Data, i).B = ptr}

Connected(g, a, b) ==
    \E i \in ConnIds(g) :
        /\ At(g.Connections.Data, i) = [A |-> a, B |-> b]
        /\ Contains(GetConnections(g, a), i)
        /\ Contains(GetConnections(g, b), i)

C2_Step ==
    (/\ Last'.op = "MakeConnection"
     /\ \/ Last'.a.Direction = Last'.b.Direction
        \/ Last'.a.Node = Last'.b.Node
        \/ /\ Graph.Validation # "null"
           /\ {Last'.a, Last'.b} \subseteq Frame.pins
           /\ ~Validate(Graph.Validation, Last'.a, Last'.b))
    => (~Last'.ret /\ Graph' = Graph)

C2_RejectChangesNothing == [][C2_Step]_vars

\* C3: with a validation installed, MakeConnection(a, b) on two declared pins
\* of opposite direction and different nodes makes the connection exactly
\* when the validation returns true for the pair.
C3_Step ==
    (/\ Last'.op = "MakeConnection"
     /\ Graph.Validation # "null"
     /\ {Last'.a, Last'.b} \subseteq Frame.pins
     /\ Last'.a.Direction # Last'.b.Direction
     /\ Last'.a.Node # Last'.b.Node)
    => IF Validate(Graph.Validation, Last'.a, Last'.b)
       THEN Last'.ret /\ Connected(Graph', Last'.a, Last'.b)
       ELSE ~Last'.ret /\ Graph'.Connections = Graph.Connections

C3_ValidationDecides == [][C3_Step]_vars

\* C4: in every reachable state an input pin is an endpoint of at most one
\* connection of the graph's list.
C4_InputSingle ==
    \A p \in HostPins : p.Direction = Input => Cardinality(ConnsOf(Graph, p)) <= 1

\* the pin ptr designates holds the fields BeginPin gave it
Declared(g, ptr) == PtrOf(PeekPin(g.Nodes, ptr)) = ptr

\* C5: a connection between two pins that BeginPin has declared, one of them
\* not declared in this frame, in which the host makes no call of the
\* connection interface, is erased from the graph's list by EndGraph, and its
\* id is gone from the connection list of the endpoint that is declared.
C5_Step ==
    (Last'.op = "EndGraph" /\ Frame.calls = 0) =>
        \A i \in ConnIds(Graph) :
            LET c == At(Graph.Connections.Data, i) IN
            (/\ Declared(Graph, c.A) /\ Declared(Graph, c.B)
             /\ ~({c.A, c.B} \subseteq Frame.pins))
            => /\ ~(InRange(Graph'.Connections.Active, i) /\ ListHas(Graph'.Connections, i))
               /\ \A e \in {c.A, c.B} \cap Frame.pins :
                     ~Contains(GetConnections(Graph', e), i)

C5_StaleErased == [][C5_Step]_vars

\* ---------------------------------------------------------------------------
\* Properties of the scopes, the header and the registry of graphs
\* ---------------------------------------------------------------------------

\* the scope a declaration call requires
ScopeRequired(op) ==
    CASE op = "BeginGraph" -> "None"
      [] op \in {"BeginNode", "EndGraph"} -> "Graph"
      [] op \in {"BeginNodeHeader", "BeginPin", "EndNode"} -> "Node"
      [] op = "EndNodeHeader" -> "NodeHeader"
      [] op = "EndPin" -> "Pin"

\* the scope a declaration call leaves: a Begin enters its own scope, an End
\* returns to the parent
ScopeLeft(op) ==
    CASE op = "BeginGraph" -> "Graph"
      [] op = "BeginNode" -> "Node"
      [] op = "BeginNodeHeader" -> "NodeHeader"
      [] op = "BeginPin" -> "Pin"
      [] op \in {"EndPin", "EndNodeHeader"} -> "Node"
      [] op = "EndNode" -> "Graph"
      [] op = "EndGraph" -> "None"

DeclarationCalls ==
    {"BeginGraph", "EndGraph", "BeginNode", "EndNode", "BeginNodeHeader", "EndNodeHeader",
     "BeginPin", "EndPin"}

\* C11: the declaration calls form a nested scope machine: BeginGraph
\* requires scope None, BeginNode and EndGraph require Graph, BeginNodeHeader,
\* BeginPin and EndNode require Node, EndNodeHeader requires NodeHeader and
\* EndPin requires Pin; a call made in another scope fails an assertion, a
\* call that completes leaves the scope of its Begin or the parent scope of
\* its End, and no BeginGraph completes while a graph is open.
C11_Step ==
    Last'.op \in DeclarationCalls =>
        /\ Scope # ScopeRequired(Last'.op) => Ctx'.Asserted
        /\ ~Ctx'.Asserted => Scope' = ScopeLeft(Last'.op)
        /\ (Last'.op = "BeginGraph" /\ ~Ctx'.Asserted) => ~Ctx.CurrentGraph /\ Ctx'.CurrentGraph

C11_ScopeMachine == [][C11_Step]_vars

\* a second BeginGraph inside a pin of an open graph has failed its assertion
C11_Witness ==
    /\ Ctx.Asserted /\ Last.op = "BeginGraph"
    /\ Scope = "Pin" /\ Ctx.CurrentGraph

\* C12: a node has at most one header per frame: BeginNodeHeader in a node
\* whose header is already declared fails an assertion, and BeginNode leaves
\* the node without a header, so that the header can be declared again in
\* the next frame.
C12_Step ==
    /\ (Last'.op = "BeginNodeHeader" /\ Scope = "Node" /\ CurrentNode(Graph).Header)
          => Ctx'.Asserted
    /\ (Last'.op = "BeginNode" /\ ~Ctx'.Asserted)
          => ~CurrentNode(Graph').Header /\ Scope' = "Node"
    /\ (Last'.op = "BeginNodeHeader" /\ Scope = "Node" /\ ~CurrentNode(Graph).Header)
          => ~Ctx'.Asserted /\ CurrentNode(Graph').Header

C13_Step ==
    (Last'.op = "EndNode" /\ EndNodeChecks /\ ~CurrentNode(Graph).Header)
        => ~Ctx'.Asserted

C13_HeaderOptional == [][C13_Step]_vars

\* the ImNodeGraphData registered under the title t
GraphTitled(ctx, g, t) == IF t = ctx.Title THEN g ELSE ctx.Closed[t]

\* the slots of the node pool that hold a node declared in the last frame
LiveNodes(g) == {i \in 0..(Len(g.Nodes.Data) - 1) : At(g.Nodes.Active, i)}

\* the graph new holds everything the graph old held: connections,
\* validation, selection, focus, and the nodes declared in its last frame
\* with their pins, the camera and the zoom (LockSelectRegion and SubmitCount
\* are cleared and Pos and Size are set at the start of each frame, and the
\* channels are those of the draw list of the frame)
Retained(old, new) ==
    /\ [new EXCEPT !.Nodes = old.Nodes, !.LockSelectRegion = old.LockSelectRegion,
                   !.SubmitCount = old.SubmitCount, !.Pos = old.Pos, !.Size = old.Size,
                   !.Splitter = old.Splitter] = old
    /\ \A i \in LiveNodes(old) :
          /\ At(new.Nodes.Data, i) = At(old.Nodes.Data, i)
          /\ At(new.Nodes.IdxToID, i) = At(old.Nodes.IdxToID, i)
          /\ GetInt(new.Nodes.IDToIdx, At(old.Nodes.IdxToID, i), nullidx) = i

\* C14: BeginGraph(title) creates a graph only when the title has no graph
\* in the registry; a later BeginGraph with the title opens the graph
\* registered under it with the state it had when it was closed, whatever
\* was done to other graphs in between, and no graph leaves the registry.
C14_Step ==
    /\ Ctx.GraphsById \subseteq Ctx'.GraphsById
    /\ SubSeq(Ctx'.Graphs, 1, Len(Ctx.Graphs)) = Ctx.Graphs
    /\ Ctx'.Graphs # Ctx.Graphs =>
          /\ Last'.op = "BeginGraph" /\ Last'.title \notin Ctx.GraphsById
          /\ Ctx'.Graphs = Append(Ctx.Graphs, Last'.title)
          /\ Ctx'.GraphsById = Ctx.GraphsById \cup {Last'.title}
    /\ \A t \in Ctx.GraphsById :
          ~(Ctx.CurrentGraph /\ Ctx.Title = t) =>
              \/ GraphTitled(Ctx', Graph', t) = GraphTitled(Ctx, Graph, t)
              \/ /\ Last'.op = "BeginGraph" /\ Last'.title = t
                 /\ Retained(GraphTitled(Ctx, Graph, t), Graph')
    /\ (Last'.op = "BeginGraph" /\ ~Ctx'.Asserted) =>
          /\ Ctx'.CurrentGraph /\ Ctx'.Title = Last'.title
          /\ Last'.title \in Ctx'.GraphsById

C14_GraphRegistry == [][C14_Step]_vars

\* the graph "A" is opened a second time, after "B" was opened, and still
\* holds the connection made in its first frame
C14_Witness ==
    /\ Last.op = "BeginGraph" /\ Last.title = "A"
    /\ Ctx.Graphs = <<"A", "B">>
    /\ Frame.n = 3
    /\ ConnIds(Graph) # {}

\* the ids GetSelected yields
Selection(g) == SetValues(g.Selected)

\* the pool holds a node under the id: Cleanup has not freed its slot
PoolMaps(p, id) == GetInt(p.IDToIdx, id, nullidx) # nullidx

\* C15: a selected node that the host stops declaring does not stay in the
\* selection: once BeginGraph's cleanup has taken the node out of the pool,
\* the id is gone from the selection by the end of that frame's draw pass.
\* (An id that the draw pass itself inserts is not counted.)
C15_Step ==
    (Last'.op = "EndGraph" /\ ~Ctx'.Asserted) =>
        \A id \in Selection(Graph) \cap Selection(Graph') : PoolMaps(Graph'.Nodes, id)

C15_SelfHealing == [][C15_Step]_vars

\* the interaction states of the graph that are active
Interactions(g) ==
    {state \in {"Panning", "MarqueeSelecting", "DraggingNodes", "ConnectingPin"} :
        \/ state = "Panning" /\ g.IsPanning
        \/ state = "MarqueeSelecting" /\ g.SelectRegionStart.Set
        \/ state = "DraggingNodes" /\ g.FocusedNode.Set /\ g.Dragging = {TRUE}
        \/ state = "ConnectingPin" /\ g.NewConnection.Set}

\* C16: in every reachable state at most one of the interaction states
\* Panning, MarqueeSelecting, DraggingNodes and ConnectingPin is active.
C16_OneInteraction == Cardinality(Interactions(Graph)) <= 1

\* the nodes declared in the frame whose screen bounds intersect the marquee
\* rectangle of the graph g under the input io
InMarquee(g, io, declared) == {id \in declared : ImAABB(GetSelection(g, io), NodeBounds(id))}

\* a marquee gesture started with no modifier key is under way: the window
\* is focused, the region is open, no modifier is held, and the selection,
\* cleared by the click that started the gesture, is the in-region set
PlainMarquee(g, io) ==
    /\ io.focused /\ io.mods = "none"
    /\ g.SelectRegionStart.Set /\ ~g.NewConnection.Set
    /\ Selection(g) = SetValues(g.SelectRegion)

\* C17: during a marquee gesture started with no modifier key, after the
\* node scan of each frame the selection is exactly the set of declared
\* nodes whose screen bounds intersect the marquee rectangle, and so is the
\* in-region set while the gesture goes on; ImAABB is strict on both axes,
\* so a node whose box only touches the rectangle is not in it.
C17_Step ==
    (Last'.op = "EndGraph" /\ ~Ctx'.Asserted /\ PlainMarquee(Graph, IO)) =>
        /\ Selection(Graph') = InMarquee(Graph, IO, Frame.nodes)
        /\ Graph'.SelectRegionStart.Set =>
               SetValues(Graph'.SelectRegion) = InMarquee(Graph, IO, Frame.nodes)

C17_Marquee == [][C17_Step]_vars

\* the left button is released with no modifier key while a node is focused
\* and no drag has moved it since the press
PlainRelease(g, io) ==
    /\ io.focused /\ io.ev = "release" /\ io.mods = "none" /\ ~io.itemFocused
    /\ g.FocusedNode.Set /\ ~g.NewConnection.Set
    /\ g.Dragging # {TRUE}

\* C18 as stated: the left button released on a focused node, with no drag
\* since the press and no modifier key, toggles the membership of the node
\* in the selection.
C18_ToggleStep ==
    (Last'.op = "EndGraph" /\ ~Ctx'.Asserted /\ PlainRelease(Graph, IO)) =>
        (Graph.FocusedNode.Value \in Selection(Graph')) = (Graph.FocusedNode.Value \notin Selection(Graph))

C18_SelectStep ==
    (Last'.op = "EndGraph" /\ ~Ctx'.Asserted /\ PlainRelease(Graph, IO)) =>
        \/ Selection(Graph') = {Graph.FocusedNode.Value}
        \/ Graph.Dragging = Indeterminate /\ Selection(Graph') = Selection(Graph)

Updated(S, node, removal) == IF removal THEN S \ {node} ELSE S \cup {node}

\* the selection that UpdateSelection(node, allow_clear, removal) is to leave
\* under the modifier keys mods, from the selection S
Specified(S, mods, node, allow_clear, removal) ==
    CASE mods = "ctrl" -> IF node \in S THEN S \ {node} ELSE S \cup {node}
      [] mods = "shift" -> Updated(S, node, removal)
      [] OTHER -> Updated(IF allow_clear THEN {} ELSE S, node, removal)

\* C19: UpdateSelection(node, allow_clear, removal), applied to the selection
\* of any reachable state: with Ctrl it toggles the membership of node and
\* changes no other entry; with Shift it inserts node, or erases it when
\* removal is set, and clears nothing; with no modifier it clears the
\* selection first exactly when allow_clear is set and then inserts or
\* erases node.
C19_UpdateSelection ==
    \A mods \in {"ctrl", "shift", "none"}, node \in SelectNodes, allow_clear \in BOOLEAN, removal \in BOOLEAN :
        SetValues(UpdateSelection(Graph.Selected, mods, node, allow_clear, removal))
            = Specified(Selection(Graph), mods, node, allow_clear, removal)

\* the nodes declared in the frame that lie under the pointer
UnderPointer(io, declared) == {id \in declared : MouseIn(NodeBounds(id), io.mouse)}

\* the position in the paint order (Nodes.Order) of the node with the id
PaintPosition(g, id) == find_index(g.Nodes.Order, GetInt(g.Nodes.IDToIdx, id, nullidx))

\* the node of ids that is painted last, over the others
Topmost(g, ids) == CHOOSE id \in ids : \A other \in ids : PaintPosition(g, other) <= PaintPosition(g, id)

\* the left button is clicked in the focused window with no gesture under
\* way and nothing of the host under the pointer
FreshClick(g, io) ==
    /\ io.focused /\ io.ev = "click" /\ ~io.item
    /\ ~g.NewConnection.Set /\ ~g.SelectRegionStart.Set /\ ~g.FocusedNode.Set

\* C20: when the left button is clicked with the pointer over several
\* overlapping nodes, the node that becomes focused is the topmost of them,
\* the last in the paint order.
C20_Step ==
    (/\ Last'.op = "EndGraph" /\ ~Ctx'.Asserted
     /\ FreshClick(Graph, IO)
     /\ Cardinality(UnderPointer(IO, Frame.nodes)) >= 2) =>
        OptIs(Graph'.FocusedNode, Topmost(Graph, UnderPointer(IO, Frame.nodes)))

C20_TopmostFocused == [][C20_Step]_vars

\* the connections of the graph's list and the connection list of every pin
\* of the host
Links(g) ==
    [Connections |-> {<<i, At(g.Connections.Data, i)>> : i \in ConnIds(g)},
     Pins |-> [p \in HostPins |-> PeekPin(g.Nodes, p).Connections]]

\* the pointer is over a pin that can take the connection being dragged:
\* opposite direction, another node, accepted by the validation installed
OverCompatible(g, io) ==
    /\ io.hover.Set
    /\ io.hover.Value.Direction # g.NewConnection.Value.Direction
    /\ io.hover.Value.Node # g.NewConnection.Value.Node
    /\ Validate(g.Validation, io.hover.Value, g.NewConnection.Value)

\* C21: in a frame in which the left button is released during a connection
\* gesture with the pointer anywhere but over a compatible pin, no call of
\* the frame before EndGraph changes the connections of the graph or the
\* connection list of a pin, and EndGraph leaves NewConnection unset.
C21_Step ==
    (IO.ev = "release" /\ Graph.NewConnection.Set /\ ~OverCompatible(Graph, IO)) =>
        IF Last'.op = "EndGraph" THEN ~Graph'.NewConnection.Set
        ELSE Links(Graph') = Links(Graph)

C21_AbandonedGesture == [][C21_Step]_vars

\* C22: a frame in which the window is not focused while a connection
\* gesture is in progress ends with NewConnection unset.
C22_Step ==
    (Last'.op = "EndGraph" /\ ~Ctx'.Asserted /\ ~IO.focused /\ Graph.NewConnection.Set) =>
        ~Graph'.NewConnection.Set

C22_FocusLost == [][C22_Step]_vars

\* the lists GetNewConnections and GetErasedConnections give for the pin ptr
Reported(g, ptr) ==
    [New |-> PeekPin(g.Nodes, ptr).NewConnections,
     Erased |-> PeekPin(g.Nodes, ptr).ErasedConnections]

NothingReported == [New |-> <<>>, Erased |-> <<>>]

\* the pin in whose scope the host is
ScopePinPtr(g) == PtrOf(PinAt(g.Nodes, g.CurrentPin))

\* what EndPin does to one list of its pin: the list is emptied unless its
\* flag is set, and then everything it held is kept
Cleared(before, after, flag) ==
    IF flag THEN \A i \in 1..Len(before) : Contains(after, before[i])
    ELSE after = <<>>

\* the pools hold the pin under its ids: Cleanup has freed neither the pin
\* nor its node
Stored(g, ptr) ==
    /\ PoolMaps(g.Nodes, ptr.Node)
    /\ PoolMaps(PinsOf(At(g.Nodes.Data, GetInt(g.Nodes.IDToIdx, ptr.Node, nullidx)),
                       ptr.Direction),
                ptr.Pin)

\* C23: a connection made or broken is recorded in
\* the lists of both pins; BeginPin returns true exactly when the lists of
\* its pin hold a change, and leaves them to be read in its scope; EndPin
\* empties each list unless a make or break inside the scope has set its
\* flag; and no other call that leaves the connections alone touches the
\* lists of a pin that stays in the pools, so that the BeginPin after the
\* next returns false until another change occurs.
C23_Step ==
    /\ (Last'.op = "MakeConnection" /\ Last'.ret) =>
           /\ Contains(Reported(Graph', Last'.a).New, Last'.b)
           /\ Contains(Reported(Graph', Last'.b).New, Last'.a)
    /\ Last'.op = "BreakConnection" =>
           /\ Contains(Reported(Graph', Last'.a).Erased, Last'.b)
           /\ Contains(Reported(Graph', Last'.b).Erased, Last'.a)
    /\ Last'.op = "BeginPin" =>
           /\ Last'.ret = (Reported(Graph, Last'.a) # NothingReported)
           /\ Links(Graph') = Links(Graph) => Reported(Graph', Last'.a) = Reported(Graph, Last'.a)
    /\ (Last'.op = "EndPin" /\ ~Ctx'.Asserted) =>
           /\ Cleared(Reported(Graph, ScopePinPtr(Graph)).New,
                      Reported(Graph', ScopePinPtr(Graph)).New,
                      PeekPin(Graph'.Nodes, ScopePinPtr(Graph)).BNewConnections)
           /\ Cleared(Reported(Graph, ScopePinPtr(Graph)).Erased,
                      Reported(Graph', ScopePinPtr(Graph)).Erased,
                      PeekPin(Graph'.Nodes, ScopePinPtr(Graph)).BErasedConnections)
    /\ \A p \in HostPins :
           (/\ Links(Graph') = Links(Graph)
            /\ Stored(Graph, p) => Stored(Graph', p)
            /\ Last'.op \notin {"MakeConnection", "BreakConnection", "BreakConnections"}
            /\ ~(Last'.op = "EndPin" /\ ScopePinPtr(Graph) = p)) =>
               Reported(Graph', p) = Reported(Graph, p)

Presorted(g, io) ==
    DrawNodes(FocusToTop(DrawScan(g, io), g.FocusedNode),
              PoolIterate(FocusToTop(DrawScan(g, io), g.FocusedNode).Nodes))

\* the slots of the active nodes that have a graph, in the order of the pool
RECURSIVE WithGraph(_, _, _)
WithGraph(g, slots, k) ==
    IF k > Len(slots) THEN <<>>
    ELSE (IF At(g.Nodes.Data, slots[k]).Graph THEN <<slots[k]>> ELSE <<>>) \o WithGraph(g, slots, k + 1)

PaintOrder(g) == WithGraph(g, PoolIterate(g.Nodes), 1)

\* the channel pair k holds the background and the foreground of the node id
PairHolds(ch, k, id) ==
    /\ InRange(ch, 2 * k + 2)
    /\ At(ch, 2 * k + 1) = Drawn(id, FALSE)
    /\ At(ch, 2 * k + 2) = Drawn(id, TRUE)

\* the channels follow the order of the pool
FollowsPool(g, ch) ==
    \A k \in 0..(Len(PaintOrder(g)) - 1) :
        PairHolds(ch, k, At(g.Nodes.Data, At(PaintOrder(g), k)).ID)

\* C24: after SortChannels the k-th channel pair of the frame holds the
\* background and the foreground of the k-th active node in the order of
\* the pool, whatever the order of declaration, nodes without a graph being
\* skipped, and no array is indexed out of range.
C24_Step ==
    (Last'.op = "EndGraph" /\ ~Presorted(Graph, IO).Failed) =>
        /\ ~SortChannels(Presorted(Graph, IO)).Failed
        /\ FollowsPool(Presorted(Graph, IO), Graph'.Splitter.Channels)

C24_ChannelsFollowPool == [][C24_Step]_vars

Abs(n) == IF n < 0 THEN 0 - n ELSE n

\* the magnitudes that enter a transform of a coordinate and its inverse: the
\* coordinate, its image, the position of the window, its centre and the
\* position of the camera
Magnitude(pos, res, Pos, Center, Position) ==
    Abs(pos) + Abs(res) + Abs(Pos) + Abs(Center) + Abs(Position)

\* a and b differ by at most 2^-Precision of the magnitude m
Close(a, b, m) == Abs(a - b) * 2^Precision <= m

NearRoundTrip(op, back) ==
    Last.op = op =>
        /\ Close(Transformed(back, Graph, Last.res).x, Last.pos.x,
                 Magnitude(Last.pos.x, Last.res.x, Graph.Pos.x, GetCenter(Graph).x,
                           Graph.Camera.Position.x))
        /\ Close(Transformed(back, Graph, Last.res).y, Last.pos.y,
                 Magnitude(Last.pos.y, Last.res.y, Graph.Pos.y, GetCenter(Graph).y,
                           Graph.Camera.Position.y))

RoundTrip(op, back) == Last.op = op => Transformed(back, Graph, Last.res) = Last.pos

Between(a, b, c) == (a <= b /\ b <= c) \/ (c <= b /\ b <= a)

\* C26: a behaviour update adds MouseWheel * ZoomRate * Scale to TargetZoom
\* only while the pointer is over the grid and clamps TargetZoom into
\* ZoomBounds; the Scale it leaves lies between the former Scale and
\* TargetZoom, and has neither jumped onto TargetZoom nor past it.
C26_Step ==
    (Last'.op = "EndGraph" /\ IO.focused /\ ~Graph.NewConnection.Set) =>
        /\ ~MouseIn(GridBounds, IO.mouse) =>
               Graph'.TargetZoom = ImClamp(Graph.TargetZoom, ZoomBounds.x, ZoomBounds.y)
        /\ Graph'.TargetZoom >= ZoomBounds.x /\ Graph'.TargetZoom <= ZoomBounds.y
        /\ Between(Graph.Camera.Scale, Graph'.Camera.Scale, Graph'.TargetZoom)
        /\ Graph.Camera.Scale # Graph'.TargetZoom =>
               Graph'.Camera.Scale # Graph'.TargetZoom

C26_ZoomApproaches == [][C26_Step]_vars

\* C27: CreateContext makes the new context current only when no context
\* was current, and otherwise leaves the current one as it was;
\* DestroyContext(ctx) destroys the graphs of the context and leaves the
\* current context null when the context destroyed was the current one, a
\* null ctx meaning the current one, and unchanged otherwise.
C27_Step ==
    /\ Last'.op = "CreateContext" =>
           /\ Contexts'[Last'.id].Live /\ Contexts'[Last'.id].Initialized
           /\ Contexts'[Last'.id].Graphs = <<>>
           /\ GImNodeGraph' = IF GImNodeGraph = NoContext THEN Last'.id ELSE GImNodeGraph
           /\ \A c \in ContextIds \ {Last'.id} : Contexts'[c] = Contexts[c]
    /\ (Last'.op = "DestroyContext" /\ ~Ctx'.Asserted) =>
           /\ Contexts'[Destroyed(Last'.id)].Graphs = <<>>
           /\ ~Contexts'[Destroyed(Last'.id)].Live
           /\ GImNodeGraph' = IF Last'.id \in {NoContext, GImNodeGraph}
                               THEN NoContext ELSE GImNodeGraph
           /\ \A c \in ContextIds \ {Destroyed(Last'.id)} : Contexts'[c] = Contexts[c]

C27_Contexts == [][C27_Step]_vars

\* a context that owned two graphs and was not the current one has been
\* destroyed, the current one keeping its graph
C27_Witness ==
    /\ Last.op = "DestroyContext" /\ Last.id # NoContext
    /\ GImNodeGraph \notin {NoContext, Last.id}
    /\ Contexts[GImNodeGraph].Graphs # <<>>

\* the node the pool holds under the id
NodeOf(g, id) == At(g.Nodes.Data, GetInt(g.Nodes.IDToIdx, id, nullidx))

\* the frame is one in which GraphBehaviour drags the focused node
DragFrame(g, io, after) ==
    /\ io.ev = "drag" /\ io.focused /\ ~io.itemFocused /\ io.mods # "alt"
    /\ ~g.NewConnection.Set
    /\ after.FocusedNode.Set /\ ~after.Failed

\* the nodes n and m have moved by the same vector
SameMove(g, after, n, m) ==
    (PoolMaps(g.Nodes, n) /\ PoolMaps(g.Nodes, m)) =>
        VSub(NodeOf(after, n).Root, NodeOf(g, n).Root)
            = VSub(NodeOf(after, m).Root, NodeOf(g, m).Root)

\* C28: when the drag of a focused node that is not in the selection starts
\* with no modifier held, the selection becomes that node alone; in every
\* frame of a drag the focused node is in the selection and the root of
\* every selected node is the pointer minus its drag offset, so that all
\* selected nodes move by the same vector.
C28_Step ==
    (Last'.op = "EndGraph" /\ DragFrame(Graph, IO, Graph')) =>
        /\ (IO.mods = "none" /\ Graph'.FocusedNode.Value \notin Selection(DrawGraph(Graph, IO))) =>
               Selection(Graph') = {Graph'.FocusedNode.Value}
        /\ Graph'.FocusedNode.Value \in Selection(Graph')
        /\ \A n \in Selection(Graph') :
               /\ PoolMaps(Graph'.Nodes, n)
               /\ NodeOf(Graph', n).Root =
                      VSub(ScreenToGrid(Graph', GetMousePos(IO)), NodeOf(Graph', n).DragOffset)
        /\ \A n, m \in Selection(Graph') : SameMove(Graph, Graph', n, m)

C28_DragMovesSelection == [][C28_Step]_vars

\* ---------------------------------------------------------------------------
\* The node that takes the focus is moved to the end of the order
\* ---------------------------------------------------------------------------

RECURSIVE SeqWithout(_, _, _)
SeqWithout(s, v, k) ==
    IF k > Len(s) THEN <<>>
    ELSE (IF s[k] = v THEN <<>> ELSE <<s[k]>>) \o SeqWithout(s, v, k + 1)

\* the order with the slot moved to its end, the others in their relative order
MovedToEnd(order, slot) == SeqWithout(order, slot, 1) \o <<slot>>

\* the graph when DrawGraph starts to paint the nodes
AtPaint(g, io) == FocusToTop(DrawScan(g, io), g.FocusedNode)

\* the scan of DrawGraph changes the focused node on a left click
FocusChanged(g, io) == io.ev = "click" /\ DrawScan(g, io).FocusedNode # g.FocusedNode

\* the slot of the node the scan of DrawGraph leaves focused
FocusSlot(g, io) == IdxOf(g.Nodes, DrawScan(g, io).FocusedNode.Value)

\* C29: in the DrawGraph of a frame whose left click changes the focused node
\* to X, the order of the node pool when the nodes are painted, and after
\* EndGraph, is the former order with X moved to its end and the other nodes
\* in their relative order; when the scan leaves the focused node as it was,
\* DrawGraph leaves the order as it was
C29_Step ==
    Last'.op = "EndGraph" =>
        /\ FocusChanged(Graph, IO) =>
              /\ DrawScan(Graph, IO).FocusedNode.Set
              /\ AtPaint(Graph, IO).Nodes.Order = MovedToEnd(Graph.Nodes.Order, FocusSlot(Graph, IO))
              /\ PaintOrder(DrawGraph(Graph, IO)) = PaintOrder(AtPaint(Graph, IO))
              /\ ~IO.keyT => SubSeq(Graph'.Nodes.Order, 1, Len(Graph.Nodes.Order))
                                = MovedToEnd(Graph.Nodes.Order, FocusSlot(Graph, IO))
        /\ DrawScan(Graph, IO).FocusedNode = Graph.FocusedNode =>
              DrawGraph(Graph, IO).Nodes.Order = Graph.Nodes.Order

C29_FocusedNodeOnTop == [][C29_Step]_vars

\* a click gave the focus to a node that was not the last of the order: it is
\* the last now, behind a node declared after it
C29_Witness ==
    /\ Last.op = "EndGraph" /\ Last.io.ev = "click"
    /\ Graph.FocusedNode.Set
    /\ Len(Graph.Nodes.Order) = 3
    /\ Back(Graph.Nodes.Order) = IdxOf(Graph.Nodes, Graph.FocusedNode.Value)
    /\ Back(Graph.Nodes.Order) < Graph.Nodes.Order[1]

\* ---------------------------------------------------------------------------
\* BreakConnections
\* ---------------------------------------------------------------------------

\* the connection list of the pin a pointer designates
ListOf(g, ptr) == PeekPin(g.Nodes, ptr).Connections

\* the pin at the other end of connection id
FarOf(g, id, ptr) ==
    IF At(g.Connections.Data, id).A = ptr THEN At(g.Connections.Data, id).B
    ELSE At(g.Connections.Data, id).A

\* connection id of pin ptr has been broken
BrokenFrom(g, after, ptr, id) ==
    /\ ~ListHas(after.Connections, id)
    /\ ~Contains(ListOf(after, FarOf(g, id, ptr)), id)
    /\ Contains(PeekPin(after.Nodes, ptr).ErasedConnections, FarOf(g, id, ptr))
    /\ Contains(PeekPin(after.Nodes, FarOf(g, id, ptr)).ErasedConnections, ptr)

\* connection id is what it was, in the list of the graph and in the pins' lists
Untouched(g, after, id) ==
    /\ ListHas(after.Connections, id)
    /\ At(after.Connections.Data, id) = At(g.Connections.Data, id)
    /\ \A q \in HostPins : Contains(ListOf(after, q), id) <=> Contains(ListOf(g, q), id)

\* BreakConnections(ptr) took the graph from g to after
AllBroken(g, after, ptr) ==
    /\ ~after.Failed
    /\ ListOf(after, ptr) = <<>>
    /\ \A k \in 1..Len(ListOf(g, ptr)) : BrokenFrom(g, after, ptr, ListOf(g, ptr)[k])
    /\ \A id \in ConnIds(g) : ~Contains(ListOf(g, ptr), id) => Untouched(g, after, id)

\* the left button is released with Alt held over the head of the pin, the
\* window focused and no connection gesture active
AltRelease(g, io, ptr) ==
    /\ io.focused /\ io.ev = "release" /\ io.mods = "alt"
    /\ io.hover = SomePin(ptr)
    /\ ~g.NewConnection.Set

\* the step runs PinHead on the pin ptr: BeginPin for an input, EndPin for an
\* output
HeadOf(ptr) ==
    \/ Last'.op = "BeginPin" /\ Last'.a = ptr /\ ptr.Direction = Input
    \/ Last'.op = "EndPin" /\ Scope = "Pin" /\ Graph.CurrentPin # NoRef
          /\ ScopePinPtr(Graph) = ptr /\ ptr.Direction = Output

\* C30: after BreakConnections(pin), called by the host or by the release of
\* the left button with Alt held over the head of the pin while no connection
\* gesture is active, the connection list of the pin is empty, each of its
\* former connections is gone from the list of the graph and from the list of
\* the pin at its other end, that pin is in ErasedConnections of the pin and
\* the pin in ErasedConnections of that pin, and every other connection is in
\* the list of the graph and in the lists of the pins as before.
C30_Step ==
    \A p \in HostPins :
        /\ (Last'.op = "BreakConnections" /\ Last'.a = p) => AllBroken(Graph, Graph', p)
        /\ (HeadOf(p) /\ AltRelease(Graph, IO, p) /\ ~Ctx'.Asserted) => AllBroken(Graph, Graph', p)

C30_BreakConnections == [][C30_Step]_vars

(***************************************************************************)
(* Draw channels of the nodes                                              *)
(***************************************************************************)

\* the two channel indices of the node with this id
ChannelPair(g, id) == {NodeOf(g, id).BgChannelIndex, NodeOf(g, id).FgChannelIndex}

\* the step is a BeginNode
Declares == Scope = "Graph" /\ Scope' = "Node"

\* C31: within one frame the channel pairs (BgChannelIndex, FgChannelIndex =
\* BgChannelIndex + 1) of the nodes declared in that frame are pairwise
\* disjoint; PushChannels(n) returns the former channel count and raises the
\* count by n, and every BeginNode assigns the pair anew from that count,
\* whatever pair the node held before
C31_Step ==
    /\ \A id \in Frame'.nodes :
          /\ NodeOf(Graph', id).FgChannelIndex = NodeOf(Graph', id).BgChannelIndex + 1
          /\ \A other \in Frame'.nodes \ {id} :
                ChannelPair(Graph', id) \cap ChannelPair(Graph', other) = {}
    /\ \A n \in 0..2 : PushChannels(Graph.Splitter, n).Count = Graph.Splitter.Count + n
    /\ Declares =>
          /\ NodeOf(Graph', Last'.id).BgChannelIndex = Graph.Splitter.Count
          /\ Graph'.Splitter.Count = Graph.Splitter.Count + 2
          /\ \A other \in Frame.nodes : NodeOf(Graph', other) = NodeOf(Graph, other)

C31_ChannelPairs == [][C31_Step]_vars

\* in the second frame nodes 8 and 20 are declared and node 1 is not: node 8
\* now holds the pair that node 1 held in the first frame and still records
C31_Witness ==
    /\ Frame.n = 2 /\ Frame.nodes = {8, 20}
    /\ PoolMaps(Graph.Nodes, 1)
    /\ ChannelPair(Graph, 1) = {1, 2}
    /\ ChannelPair(Graph, 8) = {1, 2}
    /\ ChannelPair(Graph, 20) = {3, 4}

(***************************************************************************)
(* Panning                                                                 *)
(***************************************************************************)

\* the camera position after a frame in which the pointer moved by io.delta
\* while panning
Panned(g, after, io) == VSub(g.Camera.Position, VDiv(io.delta, after.Camera.Scale))

\* C32: IsPanning becomes true only in a frame with a press of the middle
\* button while the pointer is over the grid; it is false after every frame
\* in which the middle button was released; and after every frame in which it
\* is true the camera position has changed by -MouseDelta / Scale
C32_Step ==
    Last'.op = "EndGraph" =>
        /\ (~Graph.IsPanning /\ Graph'.IsPanning) =>
               IO.middle = "click" /\ MouseIn(GridBounds, IO.mouse)
        /\ IO.middle = "release" => ~Graph'.IsPanning
        /\ Graph'.IsPanning => Graph'.Camera.Position = Panned(Graph, Graph', IO)

C32_Panning == [][C32_Step]_vars

(***************************************************************************)
(* The root of a node                                                      *)
(***************************************************************************)

\* the pool holds a node with this id that a BeginNode has set up
SetUp(g, id) == PoolMaps(g.Nodes, id) /\ NodeOf(g, id).Graph

\* the step is the EndGraph of a frame in which the left button is dragged
\* and the node id is in the selection that is dragged
Drags(id) == Last'.op = "EndGraph" /\ IO.ev = "drag" /\ id \in Selection(Graph')

\* C33: BeginNode(id, pos) gives the node the root pos only when it sets the
\* node up (the pool held no node with this id that a BeginNode had set up);
\* when the node is declared again its root is the one it had, whatever pos
\* the caller passes, and the call returns that root in pos; between two
\* declarations the root of a node changes only by a drag
C33_Step ==
    /\ Declares =>
          /\ NodeOf(Graph', Last'.id).Root =
                IF SetUp(Graph, Last'.id) THEN NodeOf(Graph, Last'.id).Root ELSE Last'.pos
          /\ Last'.res = NodeOf(Graph', Last'.id).Root
    /\ \A id \in SelectNodes \cup HostNodes :
          (SetUp(Graph, id) /\ SetUp(Graph', id)
              /\ NodeOf(Graph', id).Root # NodeOf(Graph, id).Root) => Drags(id)

C33_RootRetained == [][C33_Step]_vars

\* node 20 is declared in the third frame with a pos that is neither the pos
\* of its first declaration nor its root, which a drag has changed
C33_Witness ==
    /\ Last.op = "BeginNode" /\ Last.id = 20 /\ Frame.n = 3
    /\ Last.res = NodeOf(Graph, 20).Root
    /\ Last.res \notin NodePositions(20)
    /\ Last.pos # Last.res

(***************************************************************************)
(* The id map and the order array of a pool                                *)
(***************************************************************************)

\* the ids that IDToIdx maps to a slot
MappedIds(p) == {id \in DOMAIN p.IDToIdx : p.IDToIdx[id] # nullidx}

\* the slots in Order and the slots in Freed
OrderSlots(p) == {p.Order[k] : k \in 1..Len(p.Order)}

FreedSlots(p) == {p.Freed[k] : k \in 1..Len(p.Freed)}

\* the mapped ids and the entries of Order correspond one to one
Corresponds(p) ==
    /\ Cardinality(MappedIds(p)) = Len(p.Order)
    /\ Cardinality(OrderSlots(p)) = Len(p.Order)
    /\ {p.IDToIdx[id] : id \in MappedIds(p)} = OrderSlots(p)
    /\ OrderSlots(p) \cap FreedSlots(p) = {}

Iterated(s) == [k \in 1..Len(SetMembers(s)) |-> SetMembers(s)[k].Value]

\* C35: under any sequence of Insert, Erase and Clear the set behaves as the
\* mathematical set of the values inserted and not erased or cleared since:
\* Contains(v) is true exactly for its members, Size is their number, and the
\* iteration yields each member exactly once; also when values collide in
\* the table and when the capacity grows
C35_SetSemantics ==
    /\ \A v \in SetIds : SetContains(imset, v) <=> v \in smembers
    /\ imset.Size = Cardinality(smembers)
    /\ Len(Iterated(imset)) = Cardinality(smembers)
    /\ {Iterated(imset)[k] : k \in 1..Len(Iterated(imset))} = smembers

(***************************************************************************)
(* The node under the pointer                                              *)
(***************************************************************************)

\* the nodes declared in the frame that are flagged Hovered
FlaggedHovered(g, declared) == {id \in declared : NodeOf(g, id).Hovered}

\* the step is an EndNode
EndsNode == Scope = "Node" /\ Scope' = "Graph"

\* C36: EndNode flags its node Hovered only if the pointer is inside the
\* bounds of the node, none of its pins is hovered, no item is hovered or
\* active, no other node is hovered or focused and no marquee selection is
\* in progress; so at most one of the nodes declared in a frame is flagged
\* Hovered, also with the pointer over the overlap of two nodes
C36_Step ==
    EndsNode =>
        /\ NodeOf(Graph', CurrentNode(Graph).ID).Hovered =>
              /\ MouseIn(NodeBounds(CurrentNode(Graph).ID), IO.mouse)
              /\ ~AnyPinHovered(CurrentNode(Graph))
              /\ ~IO.item
              /\ ~Graph.HoveredNode.Set \/ OptIs(Graph.HoveredNode, CurrentNode(Graph).ID)
              /\ ~Graph.FocusedNode.Set \/ OptIs(Graph.FocusedNode, CurrentNode(Graph).ID)
              /\ ~Graph.SelectRegionStart.Set
        /\ Cardinality(FlaggedHovered(Graph', Frame.nodes)) <= 1

C36_OneHovered == [][C36_Step]_vars

(***************************************************************************)
(* Connection lists of the pins and the connection list of the graph       *)
(***************************************************************************)

\* the pins a host or a connection of the model can name
PinPtrs == {Ptr(n, p, d) : n \in HostNodes, p \in {1, 2}, d \in {Input, Output}}

\* the pool of the graph holds the pin ptr in a node that is active
LivePin(g, ptr) ==
    /\ PoolMaps(g.Nodes, ptr.Node)
    /\ PoolHas(g.Nodes, ptr.Node)
    /\ PoolMaps(PinsOf(NodeOf(g, ptr.Node), ptr.Direction), ptr.Pin)

\* every id in the list of the pin names an active connection with the pin
\* as an endpoint
ListSound(g, ptr) ==
    \A k \in 1..Len(ListOf(g, ptr)) : ListOf(g, ptr)[k] \in ConnsOf(g, ptr)

\* the id of the connection is in the lists of both of its endpoints
Listed(g, i) ==
    /\ Contains(ListOf(g, At(g.Connections.Data, i).A), i)
    /\ Contains(ListOf(g, At(g.Connections.Data, i).B), i)

\* C37: after every EndGraph every id in the Connections list of a pin of a
\* live node names an active connection that has the pin as an endpoint, and
\* the id of every active connection is in the Connections list of both of
\* its endpoint pins
C37_Step ==
    Last'.op = "EndGraph" =>
        /\ \A ptr \in PinPtrs : LivePin(Graph', ptr) => ListSound(Graph', ptr)
        /\ \A i \in ConnIds(Graph') : Listed(Graph', i)

C37_ListsAgree == [][C37_Step]_vars

(***************************************************************************)
(* The queries of the host on a pin                                        *)
(***************************************************************************)

\* the host's call is a query on the pin of a pointer
Queries == Last'.op = "GetConnections"

\* C38: a query on a pin (IsPinConnected(pin), GetConnections(pin),
\* GetUserID(pin)) leaves the graph as it was: it creates no slot of a node
\* or of a pin and activates none
C38_Step == Queries => Graph' = Graph

C38_QueriesKeepGraph == [][C38_Step]_vars

(***************************************************************************)
(* Connections dissolved by DrawGraph                                      *)
(***************************************************************************)

\* the two ends of connection id
ConnsEnds(g, id) == {At(g.Connections.Data, id).A, At(g.Connections.Data, id).B}

\* EndGraph has dissolved connection id, of which the host has declared the
\* end ptr in this frame and not the other end
Dissolved(g, after, id, ptr) ==
    /\ ptr \in Frame.pins
    /\ FarOf(g, id, ptr) \notin Frame.pins
    /\ ~ListHas(after.Connections, id)

\* the next BeginPin of the pin returns true and GetErasedConnections then
\* lists the pin far
Notified(after, ptr, far) ==
    /\ PinChanged(PeekPin(after.Nodes, ptr))
    /\ Contains(PeekPin(after.Nodes, ptr).ErasedConnections, far)
    /\ PeekPin(after.Nodes, ptr).BErasedConnections

\* C39: when EndGraph dissolves a connection because the pin at one of its
\* ends was not declared in the frame, the pin at the end that was declared
\* holds the lost peer in ErasedConnections with the flag set, so that its
\* next BeginPin returns true and GetErasedConnections lists the peer
C39_Step ==
    Last'.op = "EndGraph" =>
        \A id \in ConnIds(Graph) : \A ptr \in HostPins :
            (ptr \in ConnsEnds(Graph, id) /\ Dissolved(Graph, Graph', id, ptr))
                => Notified(Graph', ptr, FarOf(Graph, id, ptr))

C39_DissolvedNotifies == [][C39_Step]_vars

(***************************************************************************)
(* The scope of the context and its current graph                          *)
(***************************************************************************)

\* C40: the current graph of the context is not null exactly when the scope
\* of the context is not None; BeginGraphPostOp with a title that no
\* BeginGraph has declared does not leave the scope Graph with a null
\* current graph
C40_ScopeHasGraph == Ctx.CurrentGraph <=> Scope # "None"

====
